---- MODULE Spec2Model ----
(***************************************************************************)
(* JewelryOps support agent: the WebSocket chat endpoint (main.py, chat_ws) *)
(* driving one turn of the agent orchestrator (agent.py, run_agent_stream)  *)
(* over the process-wide session map SESSIONS.                              *)
(*                                                                          *)
(* Text is a sequence of symbols.  Model-produced text is made of           *)
(* one-character symbols, so Len is the Python len(); the fixed literals    *)
(* the code emits ("\nThoughts:\n", ...) are single symbols.                *)
(***************************************************************************)
EXTENDS Integers, Sequences, FiniteSets, TLC

VARIABLES
    SESSIONS,              \* agent.py:37   session id -> SessionState
    turns,                 \* connections accepted so far
    pc,                    \* position of the current connection's handler
    sent,                  \* frames sent on the current connection, in order
    closed,                \* the handler called websocket.close()
    raw,                   \* main.py:125  the request message as received
    session_id,            \* main.py:134
    user_message,          \* main.py:135
    messages,              \* agent.py:324  prompt list of the turn
    tool_calls_made,       \* agent.py:336
    tool_names_in_order,   \* agent.py:372
    full_response,         \* agent.py:335
    final_response,        \* agent.py:476
    summary_messages,      \* agent.py:453
    tc_pos,                \* position of the loop of agent.py:398
    n_chunks,              \* chunks taken from completion streams so far, all turns
    \* history variables (observations, never read by the actions' guards)
    deltas_seen,           \* tool-call deltas of the first completion, in arrival order
    first_text,            \* content deltas of the first completion, in arrival order
    final_deltas,          \* content deltas of the second completion, in arrival order
    executor_calls,        \* calls handed to execute_tool_async in this turn
    count_at_start,        \* session.tool_calls_count when the turn started
    msgs_at_start,         \* session.messages when the turn started
    summary_at_start,      \* session.investigation_summary when the turn started
    sessions_at_accept,    \* SESSIONS when the connection was accepted
    faults,                \* failures raised in this turn: <<[at, exc]>>
    escaped,               \* the exception that left run_agent_stream, or None
    second_requested,      \* the second completion request was issued
    \* the client's frame interpreter (client/app.py, ws_token_stream)
    prefix_buffer,         \* app.py:49
    in_prefix,             \* app.py:50
    emitted,               \* the characters yielded so far, in order
    client_pc,             \* "receiving", "done" (returned) or "error" (raised)
    frames_in,             \* data of the token frames received, in arrival order
    parsed_obj,            \* the object json.loads returned at app.py:164, or NotParsed
    \* the tool registry (agent.py, JewelryOpsAgentService)
    mcp_tools_cache,       \* agent.py:44  self._mcp_tools_cache
    sources,               \* the remote sources as they are now: name -> state
    contacts,              \* sources contacted by the last operation, in order
    last_op,               \* the last registry operation and what it gave
    load_failed,           \* sources that failed in the last load of the schemas
    n_ops,                 \* registry operations so far
    \* persistence (services/redis.py, services/context_service.py)
    redis_url,             \* settings.py:28  settings.redis_url
    context_ttl_seconds,   \* settings.py:29  settings.context_ttl_seconds
    redis_client,          \* redis.py:19  RedisCrudService._client
    context_service_instance, \* context_service.py:94  _context_service_instance is set
    store,                 \* the data set of the Redis server: key -> entry
    svc_op,                \* the last persistence operation and what it gave
    n_svc_ops,             \* persistence operations so far
    \* the inventory tools (mcp_servers/*/server.py)
    inventory,             \* the inventory rows, in storage order
    stock_op,              \* the last check_stock call and its payload
    \* two handlers of chat_ws on one event loop
    conns                  \* connection -> the position and locals of its handler

client_vars == <<prefix_buffer, in_prefix, emitted, client_pc, frames_in, parsed_obj>>

registry_vars == <<mcp_tools_cache, sources, contacts, last_op, load_failed, n_ops>>

persistence_vars == <<redis_url, context_ttl_seconds, redis_client, context_service_instance,
                      store, svc_op, n_svc_ops>>

stock_vars == <<inventory, stock_op>>

service_vars == <<persistence_vars, stock_vars>>

concurrent_vars == <<conns>>

others == <<client_vars, registry_vars, service_vars, concurrent_vars>>

vars == <<SESSIONS, turns, pc, sent, closed, raw, escaped, session_id, user_message, messages,
          summary_messages, tool_calls_made, tool_names_in_order, full_response, final_response,
          tc_pos, n_chunks, deltas_seen, first_text, final_deltas,
          executor_calls, count_at_start, msgs_at_start, summary_at_start,
          sessions_at_accept, faults, second_requested, others>>

----------------------------------------------------------------------------
(* Bounds of the model *)

MaxTurns == 2          \* connections (one turn each) in a behaviour
MaxChunks == 3         \* chunks taken from the completion streams in a behaviour
MaxStreamDeltas == 3   \* tool-call deltas of the stream of SpecDeltas
MaxFrames == 4         \* token frames of a reply read by the client
MaxOps == 2            \* operations on the tool registry in a behaviour
MaxSvcOps == 3         \* persistence operations in a behaviour
MaxStock == 3          \* largest quantity, reserved count and requested quantity

(* Program constants *)

SUMMARY_LIMIT == 500   \* agent.py:495  full_response[:500]
HISTORY_WINDOW == 10   \* agent.py:327  session.messages[-10:]
CONTEXT_WINDOW == 5    \* agent.py:263  session.messages[-5:]
PREVIEW_LIMIT == 200   \* agent.py:266  content[:200]
DEFAULT_TTL == 86400   \* settings.py:29  context_ttl_seconds

----------------------------------------------------------------------------
(* Text and list helpers: Python slices *)

Min(a, b) == IF a <= b THEN a ELSE b

Max(a, b) == IF a >= b THEN a ELSE b

\* s[:n]
Take(s, n) == SubSeq(s, 1, Min(n, Len(s)))

\* s[-n:]
LastN(s, n) == SubSeq(s, Max(1, Len(s) - n + 1), Len(s))

\* Python None, for values that are otherwise strings or texts
None == "None"

\* "\n".join(parts), parts a sequence of texts
RECURSIVE Join(_)
Join(parts) ==
    IF parts = <<>> THEN <<>>
    ELSE IF Len(parts) = 1 THEN parts[1]
    ELSE parts[1] \o <<"\n">> \o Join(Tail(parts))

\* str.strip() over the whitespace symbol " "
RECURSIVE Strip(_)
Strip(s) ==
    IF s = <<>> THEN s
    ELSE IF Head(s) = " " THEN Strip(Tail(s))
    ELSE IF s[Len(s)] = " " THEN Strip(SubSeq(s, 1, Len(s) - 1))
    ELSE s

----------------------------------------------------------------------------
(* Exceptions: the classes the handlers tell apart, with their base class *)

ExcClasses ==
    {"TimeoutError", "ConnectionError", "RuntimeError", "Exception"}

\* Python's class hierarchy: TimeoutError and ConnectionError are OSErrors,
\* json.JSONDecodeError is a ValueError.  "Exception" stands for any class
\* that derives from none of the classes the handlers name, such as
\* openai.APIError (APITimeoutError, APIConnectionError), KeyError or
\* AttributeError.
BaseClass(e) ==
    CASE e \in {"TimeoutError", "ConnectionError"} -> "OSError"
      [] e = "JSONDecodeError" -> "ValueError"
      [] OTHER -> "Exception"

\* isinstance(e, (c1, c2, ...)) as an except clause tests it
Catches(classes, e) == e \in classes \/ BaseClass(e) \in classes

----------------------------------------------------------------------------
(* Frames sent to the client *)

TokenFrame(data) ==
    [type |-> "token", data |-> data, session_id |-> None, tool_calls_count |-> 0]

ErrorFrame(data) ==
    [type |-> "error", data |-> data, session_id |-> None, tool_calls_count |-> 0]

DoneFrame(sid, count) ==
    [type |-> "done", data |-> <<>>, session_id |-> sid, tool_calls_count |-> count]

----------------------------------------------------------------------------
(* Sessions *)

SessionState(sid) ==
    [session_id |-> sid, messages |-> <<>>, investigation_summary |-> <<>>,
     tool_calls_count |-> 0]

\* get_session with a new state made on every reference
get_session_Fresh(sessions, sid) ==
    [s \in DOMAIN sessions \cup {sid} |->
        IF s = sid THEN SessionState(sid) ELSE sessions[s]]

\* SESSIONS after get_session(sid): the session is created on first reference
get_session(sessions, sid) ==
    IF sid \in DOMAIN sessions THEN sessions
    ELSE [s \in DOMAIN sessions \cup {sid} |->
            IF s = sid THEN SessionState(sid) ELSE sessions[s]]

Message(role, content) == [role |-> role, content |-> content]

\* CommitAnswer with the summary not cut to its limit
CommitAnswer_NoTruncation(sessions, sid, answer) ==
    IF answer # <<>>
    THEN [sessions EXCEPT
            ![sid].messages = Append(@, Message("assistant", answer)),
            ![sid].investigation_summary = answer]
    ELSE sessions

\* CommitAnswer with the answer written over the last entry
CommitAnswer_ReplacesLast(sessions, sid, answer) ==
    IF answer # <<>>
    THEN [sessions EXCEPT
            ![sid].messages = [@ EXCEPT ![Len(@)] = Message("assistant", answer)],
            ![sid].investigation_summary = Take(answer, SUMMARY_LIMIT)]
    ELSE sessions

\* CommitAnswer with the summary left as it was
CommitAnswer_KeepsSummary(sessions, sid, answer) ==
    IF answer # <<>>
    THEN [sessions EXCEPT ![sid].messages = Append(@, Message("assistant", answer))]
    ELSE sessions

\* agent.py:491-495: the assistant entry and the summary, only for a
\* non-empty final answer
CommitAnswer(sessions, sid, answer) ==
    IF answer # <<>>
    THEN [sessions EXCEPT
            ![sid].messages = Append(@, Message("assistant", answer)),
            ![sid].investigation_summary = Take(answer, SUMMARY_LIMIT)]
    ELSE sessions

----------------------------------------------------------------------------
(* Inputs *)

\* An absent or null JSON member
NoneText == <<None>>

\* What the client sends as its one request message (main.py:125):
\* text that is not JSON, JSON that is not an object, or an object.
RawPayloads ==
    {[kind |-> "not_json", session_id |-> None, message |-> NoneText],
     [kind |-> "non_object", session_id |-> None, message |-> NoneText]}
    \cup
    [kind : {"object"}, session_id : {None, "s1"},
     message : {NoneText, <<>>, <<" ">>, <<" ", "h", "i">>}]

\* Tools of the in-process function map (tools.py:269-273) and their
\* required parameters (tools.py:34, 84, 135)
CustomFunctions == {"extract_entities", "summarize_state", "check_requires_confirmation"}

RequiredParams(name) ==
    CASE name = "extract_entities" -> {"query"}
      [] name = "summarize_state" -> {"history"}
      [] name = "check_requires_confirmation" -> {"action_description"}
      [] OTHER -> {}

\* Positional index of a tool_call_delta whose index is None (agent.py:353)
NoIndex == -1

ToolCallDelta(index, id, name, arguments) ==
    [index |-> index, id |-> id, name |-> name, arguments |-> arguments]

\* Tool-call deltas of the first completion, as the turns draw them: the header
\* of an in-process call, its argument text, a remote call with broken
\* argument text at index 1, and a whole remote call at either index.
\* The argument symbol "q" is the member "query": "x".
DeltaIndexes == {0, 1}

TurnDeltas ==
    {ToolCallDelta(0, "call_a", "extract_entities", <<>>),
     ToolCallDelta(0, "", "", <<"{", "q", "}">>),
     ToolCallDelta(1, "call_b", "get_order", <<"{">>)}
    \cup {ToolCallDelta(i, "call_c", "get_order", <<"{", "}">>) : i \in DeltaIndexes}

\* Content deltas of the completions
FirstContents == {<<"h", "i">>}

LongText == [i \in 1..SUMMARY_LIMIT |-> "x"]

FinalContents == {<<"o", "k">>, LongText}

----------------------------------------------------------------------------
(* json.loads over the argument alphabet {"{", "q", "}"}: the only texts it
   accepts are the objects {} and {"query": "x"}; an object is modelled by
   the set of its keys. *)

json_loads(text) ==
    CASE text = <<"{", "}">> -> [ok |-> TRUE, value |-> {}]
      [] text = <<"{", "q", "}">> -> [ok |-> TRUE, value |-> {"query"}]
      [] OTHER -> [ok |-> FALSE, value |-> {}]

\* ParseArguments with text that does not parse taken as no arguments
ParseArguments_Lenient(text) ==
    IF text # <<>> /\ json_loads(text).ok THEN json_loads(text) ELSE [ok |-> TRUE, value |-> {}]

\* agent.py:403-407: json.loads(tc["arguments"]) if tc["arguments"] else {}
ParseArguments(text) ==
    IF text # <<>> THEN json_loads(text) ELSE [ok |-> TRUE, value |-> {}]

----------------------------------------------------------------------------
(* The prompt *)

PromptMessage(role, content, tool_calls, tool_call_id) ==
    [role |-> role, content |-> content, tool_calls |-> tool_calls,
     tool_call_id |-> tool_call_id]

\* agent.py:265-267
ContentPreview(content) ==
    IF Len(content) > PREVIEW_LIMIT
    THEN Take(content, PREVIEW_LIMIT) \o <<"...">>
    ELSE content

\* agent.py:254-270, 287: the system message of build_agent_async
SystemMessage(session) ==
    LET summary_part ==
            IF session.investigation_summary # <<>>
            THEN << <<"\n Prior Investigation Summary\n">>
                    \o session.investigation_summary >>
            ELSE <<>>
        recent == LastN(session.messages, CONTEXT_WINDOW)
        context_part ==
            IF session.messages # <<>>
            THEN << <<"\n Recent Conversation Context">> >>
                 \o [k \in 1..Len(recent) |->
                        <<recent[k].role, ": ">> \o ContentPreview(recent[k].content)]
            ELSE <<>>
    IN  Join(<< <<"agent_system_prompt">> >> \o summary_part \o context_part)

\* agent.py:324-329: the message list of the first completion request
FirstMessages(session, user_msg) ==
    LET window == LastN(session.messages, HISTORY_WINDOW)
    IN  << PromptMessage("system", SystemMessage(session), <<>>, None) >>
        \o [k \in 1..Len(window) |->
               PromptMessage(window[k].role, window[k].content, <<>>, None)]
        \o << PromptMessage("user", user_msg, <<>>, None) >>

----------------------------------------------------------------------------
(* The first completion: accumulation of tool-call deltas *)

EmptyToolCall == [id |-> "", name |-> "", arguments |-> <<>>]

\* AccumulateDelta with the argument fragment assigned instead of appended
AccumulateDelta_Assign(made, d) ==
    IF d.index = NoIndex THEN made
    ELSE
        LET extended ==
                IF Len(made) <= d.index
                THEN made \o [k \in 1..(d.index + 1 - Len(made)) |-> EmptyToolCall]
                ELSE made
            pos == d.index + 1
            with_id ==
                IF d.id # "" THEN [extended[pos] EXCEPT !.id = d.id]
                ELSE extended[pos]
            with_name ==
                IF d.name # "" THEN [with_id EXCEPT !.name = d.name]
                ELSE with_id
            with_args ==
                IF d.arguments # <<>>
                THEN [with_name EXCEPT !.arguments = d.arguments]
                ELSE with_name
        IN  [extended EXCEPT ![pos] = with_args]

\* agent.py:353-370: one tool_call_delta applied to tool_calls_made
AccumulateDelta(made, d) ==
    IF d.index = NoIndex THEN made
    ELSE
        LET extended ==
                IF Len(made) <= d.index
                THEN made \o [k \in 1..(d.index + 1 - Len(made)) |-> EmptyToolCall]
                ELSE made
            pos == d.index + 1
            with_id ==
                IF d.id # "" THEN [extended[pos] EXCEPT !.id = d.id]
                ELSE extended[pos]
            with_name ==
                IF d.name # "" THEN [with_id EXCEPT !.name = d.name]
                ELSE with_id
            with_args ==
                IF d.arguments # <<>>
                THEN [with_name EXCEPT !.arguments = @ \o d.arguments]
                ELSE with_name
        IN  [extended EXCEPT ![pos] = with_args]

\* IsNamed with the test of the name left out
IsNamed_Always(tc) == TRUE

\* agent.py:376, 399: if tc["name"]
IsNamed(tc) == tc.name # ""

\* agent.py:375-387: the named calls, in list order
RECURSIVE NamedCalls(_)
NamedCalls(made) ==
    IF made = <<>> THEN <<>>
    ELSE IF IsNamed(Head(made)) THEN <<Head(made)>> \o NamedCalls(Tail(made))
    ELSE NamedCalls(Tail(made))

\* agent.py:377-386
ToolCallsForMessage(made) ==
    LET named == NamedCalls(made)
    IN  [k \in 1..Len(named) |->
            [id |-> named[k].id, type |-> "function",
             function |-> [name |-> named[k].name, arguments |-> named[k].arguments]]]

\* ToolNamesInOrder with the names collected from the last entry to the first
ToolNamesInOrder_Reversed(made) ==
    LET named == NamedCalls(made)
    IN  [k \in 1..Len(named) |-> named[Len(named) + 1 - k].name]

\* agent.py:387
ToolNamesInOrder(made) ==
    LET named == NamedCalls(made)
    IN  [k \in 1..Len(named) |-> named[k].name]

----------------------------------------------------------------------------
(* The tool executor, as the turn sees it (agent.py:158-240): the outcomes of
   execute_tool_async(name, arguments).  An in-process function is called
   directly and whatever it raises propagates (agent.py:170-175): a TypeError
   when the arguments do not fit its signature, else whatever its body
   raises.  Any other name is looked up on the remote sources, whose
   transport errors are caught (agent.py:230); the result is the tool's text
   or the "not found" text (agent.py:240). *)

ToolResult(name) == <<"result of ", name>>

ToolNotFound(name) == <<"Error: Tool ", name, " not found">>

ExecuteToolOutcomes(name, arguments) ==
    IF name \in CustomFunctions
    THEN IF arguments = RequiredParams(name)
         THEN {[kind |-> "return", value |-> ToolResult(name), exc |-> None],
               [kind |-> "raise", value |-> <<>>, exc |-> "Exception"],
               [kind |-> "raise", value |-> <<>>, exc |-> "ValueError"]}
         ELSE {[kind |-> "raise", value |-> <<>>, exc |-> "TypeError"]}
    ELSE {[kind |-> "return", value |-> ToolResult(name), exc |-> None],
          [kind |-> "return", value |-> ToolNotFound(name), exc |-> None]}

----------------------------------------------------------------------------
(* How a turn ends *)

\* main.py:148-157, 168-179: an exception that leaves run_agent_stream.
\* Sets sent', closed', pc' and escaped'.
MainOnException(e) ==
    /\ escaped' = e
    /\ IF Catches({"TimeoutError", "ConnectionError"}, e)
       THEN /\ sent' = Append(sent, ErrorFrame(<<e>>))
            /\ closed' = TRUE
            /\ pc' = "returned"
       ELSE IF Catches({"ValueError"}, e)
       THEN /\ sent' = Append(sent, ErrorFrame(<<e>>))
            /\ closed' = TRUE
            /\ pc' = "returned"
       ELSE IF Catches({"ConnectionError", "TimeoutError", "RuntimeError"}, e)
       THEN /\ sent' = Append(sent, ErrorFrame(<<e>>))
            /\ closed' = TRUE
            /\ pc' = "returned"
       ELSE /\ sent' = sent
            /\ closed' = closed
            /\ pc' = "crashed"

\* FinishTurn with the handler going back to read another request
FinishTurn_ReadsAgain(sessions, tokens, answer) ==
    LET committed == CommitAnswer(sessions, session_id, answer)
    IN  /\ SESSIONS' = committed
        /\ sent' = sent \o tokens
                   \o << DoneFrame(session_id, committed[session_id].tool_calls_count) >>
        /\ closed' = closed
        /\ pc' = "accepted"
        /\ escaped' = escaped

\* agent.py:491-495 then main.py:159-166: the generator returns, the answer
\* (if any) is committed and the done frame carries the session's counter.
\* `tokens` are the frames of the tokens yielded on the way.
\* Sets SESSIONS', sent', closed', pc' and escaped'.
FinishTurn(sessions, tokens, answer) ==
    LET committed == CommitAnswer(sessions, session_id, answer)
    IN  /\ SESSIONS' = committed
        /\ sent' = sent \o tokens
                   \o << DoneFrame(session_id, committed[session_id].tool_calls_count) >>
        /\ closed' = closed
        /\ pc' = "returned"
        /\ escaped' = escaped

\* agent.py:487-489: an exception raised inside the try block of the turn.
\* Sets SESSIONS', sent', closed', pc' and escaped'.
GeneratorExcept(sessions, e) ==
    IF Catches({"TimeoutError", "ConnectionError", "ValueError"}, e)
    THEN FinishTurn(sessions,
                    << TokenFrame(<<"Error during agent execution: ", e>>) >>,
                    full_response)
    ELSE /\ SESSIONS' = sessions
         /\ MainOnException(e)

----------------------------------------------------------------------------
(* Initial state: the server is up, no session exists, the first connection
   has been accepted (main.py:123) and its request is awaited. *)

NoSessions == [s \in {} |-> SessionState(s)]

\* No request message has been read yet
NoRequest == [kind |-> "none", session_id |-> None, message |-> NoneText]

\* mcp_configs in the opposite order
mcp_configs_Reversed == <<"gmail_mock", "notion_mock", "jewelryops_mysql">>

\* agent.py:70-86, 181-197: the configured remote sources, in probing order
mcp_configs == <<"jewelryops_mysql", "notion_mock", "gmail_mock">>

SourceNames == {mcp_configs[k] : k \in 1..Len(mcp_configs)}

\* agent.py:44: no schema list loaded yet (None)
NoCache == [loaded |-> FALSE, tools |-> <<>>]

\* No registry operation yet.  The record of an operation holds its name and
\* the replies the sources had for it, and what it gave: kind, value, exc,
\* whether the in-process function was called, and the sources on which the
\* tool was invoked.
NoOp == [op |-> "none", name |-> "", kind |-> "none", value |-> <<>>, exc |-> None,
         in_process |-> FALSE, invoked |-> <<>>, replies |-> <<>>]

\* app.py:49-50: the interpreter before the first frame
InitClient ==
    /\ prefix_buffer = <<>>
    /\ in_prefix = TRUE
    /\ emitted = <<>>
    /\ client_pc = "receiving"
    /\ frames_in = <<>>
    /\ parsed_obj = <<>>

\* agent.py:44: a fresh service; every source is up
InitRegistry ==
    /\ mcp_tools_cache = NoCache
    /\ sources = [s \in SourceNames |-> "up"]
    /\ contacts = <<>>
    /\ last_op = NoOp
    /\ load_failed = {}
    /\ n_ops = 0

\* context_service.py:15, 49-50: the store key of a session
CONTEXT_KEY_PREFIX == "context:"

ContextKey(sid) == <<CONTEXT_KEY_PREFIX, sid>>

SessionIds == {"s1", "s2"}

\* Keys of the data set: the keys of two sessions and a key of another user
\* of the CRUD service
StoreKeys == {ContextKey(sid) : sid \in SessionIds} \cup {<<"k">>}

\* A key the data set does not hold; an entry holds its text (a sequence of
\* JSON tokens) and its expiry in seconds, 0 for an entry that never expires
NoEntry == [present |-> FALSE, value |-> <<>>, ttl |-> 0]

Entry(value, ttl) == [present |-> TRUE, value |-> value, ttl |-> ttl]

\* Python values as json.loads gives them and json.dumps takes them: t is the
\* type; s the characters of a str; n the value of an int or bool, and of a
\* float in tenths; keys and items the keys and values of a dict, in
\* insertion order; items the elements of a list
Py(t, s, n, keys, items) == [t |-> t, s |-> s, n |-> n, keys |-> keys, items |-> items]

PyNone == Py("NoneType", <<>>, 0, <<>>, <<>>)

PyStr(s) == Py("str", s, 0, <<>>, <<>>)

PyInt(n) == Py("int", <<>>, n, <<>>, <<>>)

PyFloat(tenths) == Py("float", <<>>, tenths, <<>>, <<>>)

PyBool(b) == Py("bool", <<>>, IF b THEN 1 ELSE 0, <<>>, <<>>)

PyList(items) == Py("list", <<>>, 0, <<>>, items)

PyDict(keys, items) == Py("dict", <<>>, 0, keys, items)

\* models.py:5-12: a SessionState; its fields are Python values, the counter
\* an int.  NoSession stands for no session given to or returned by an
\* operation.
PySession(sid, msgs, summary, count) ==
    [is_session |-> TRUE, session_id |-> sid, messages |-> msgs,
     investigation_summary |-> summary, tool_calls_count |-> count]

NoSession ==
    [is_session |-> FALSE, session_id |-> PyNone, messages |-> PyNone,
     investigation_summary |-> PyNone, tool_calls_count |-> PyNone]

\* No persistence operation yet.  The record of an operation holds its name,
\* key and arguments, the commands it issued on the Redis client, in order,
\* and what it gave: ret ("None", "True", "False", "text", "session",
\* "service" or "raised"), the text or session returned, the exception raised;
\* fault is what the Redis client had for the command: None or an exception.
NoSvcOp == [op |-> "none", key |-> <<>>, ttl_arg |-> PyNone, saved |-> NoSession,
            commands |-> <<>>, ret |-> "none", text |-> <<>>, session |-> NoSession,
            exc |-> None, fault |-> None]

\* An inventory row (jewelryops_mysql/server.py:55-60), and an item of the
\* orders server's inventory list that has no reserved count
Row(sku, quantity, reserved) == [sku |-> sku, quantity |-> quantity, reserved |-> reserved]

RowWithoutReserved(sku, quantity) == [sku |-> sku, quantity |-> quantity]

\* No check_stock call yet.  The record of a call holds the server asked,
\* the arguments and the payload returned (a dict, before json.dumps).
NoStockOp == [server |-> "none", sku |-> "", requested |-> 0, payload |-> PyNone]

\* redis.py:19, context_service.py:94, settings.py:28-29: nothing configured,
\* nothing connected, an empty data set
InitPersistence ==
    /\ redis_url = NoneText
    /\ context_ttl_seconds = DEFAULT_TTL
    /\ redis_client = None
    /\ context_service_instance = FALSE
    /\ store = [k \in StoreKeys |-> NoEntry]
    /\ svc_op = NoSvcOp
    /\ n_svc_ops = 0

\* The seeded inventory row the spec's example is about
InitStock ==
    /\ inventory = <<Row("RING-102", 2, 2)>>
    /\ stock_op = NoStockOp

InitServices == InitPersistence /\ InitStock

\* The connections of the two concurrent handlers
Conns == {1, 2}

\* A handler of chat_ws that has accepted its connection and read its request
\* (main.py:123-142): its position, its user message, the entries of its
\* tool_calls_made (agent.py:336) and the position of the loop over them, its
\* final_response (agent.py:476), and what it observed: the counter when the
\* session was fetched, the places of its entries
\* in the transcript, the count it put in its done frame
NewHandler(c) ==
    [pc |-> "start", user_message |-> <<"u", ToString(c)>>, tool_calls_made |-> <<>>,
     tc_pos |-> 1, final_response |-> <<>>, count_at_start |-> 0,
     user_at |-> 0, assistant_at |-> 0, done_count |-> 0, done_sent |-> FALSE]

InitConnections == conns = [c \in Conns |-> NewHandler(c)]

InitServer ==
    /\ SESSIONS = NoSessions
    /\ turns = 1
    /\ pc = "accepted"
    /\ sent = <<>>
    /\ closed = FALSE
    /\ raw = NoRequest
    /\ escaped = None
    /\ session_id = None
    /\ user_message = <<>>
    /\ messages = <<>>
    /\ summary_messages = <<>>
    /\ tool_calls_made = <<>>
    /\ tool_names_in_order = <<>>
    /\ full_response = <<>>
    /\ final_response = <<>>
    /\ tc_pos = 1
    /\ n_chunks = 0
    /\ deltas_seen = <<>>
    /\ first_text = <<>>
    /\ final_deltas = <<>>
    /\ executor_calls = <<>>
    /\ count_at_start = 0
    /\ msgs_at_start = <<>>
    /\ summary_at_start = <<>>
    /\ sessions_at_accept = NoSessions
    /\ faults = <<>>
    /\ second_requested = FALSE

Init == InitServer /\ InitClient /\ InitRegistry /\ InitServices /\ InitConnections

locals == <<raw, session_id, user_message, messages, summary_messages, tool_calls_made,
            tool_names_in_order, full_response, final_response, tc_pos, n_chunks>>

history == <<deltas_seen, first_text, final_deltas, executor_calls, count_at_start,
             msgs_at_start, summary_at_start, sessions_at_accept, faults,
             escaped, second_requested>>

Fault(at, e) == [at |-> at, exc |-> e]

----------------------------------------------------------------------------
(* main.py:123-142: the one request of the connection is read and checked *)

ReceiveRequest(request) ==
    /\ pc = "accepted"
    /\ raw' = request
    /\ IF request.kind = "not_json"
       THEN \* main.py:128-132
            /\ sent' = Append(sent, ErrorFrame(<<"Invalid JSON payload">>))
            /\ closed' = TRUE
            /\ pc' = "returned"
            /\ UNCHANGED <<session_id, user_message>>
       ELSE IF request.kind = "non_object"
       THEN \* main.py:134: payload.get raises AttributeError, which no
            \* except clause of chat_ws names
            /\ pc' = "crashed"
            /\ UNCHANGED <<sent, closed, session_id, user_message>>
       ELSE LET sid == IF request.session_id = None THEN "default" ELSE request.session_id
                message == Strip(IF request.message = NoneText THEN <<>> ELSE request.message)
            IN  IF message = <<>>
                THEN \* main.py:137-140
                     /\ sent' = Append(sent, ErrorFrame(<<"Empty message">>))
                     /\ closed' = TRUE
                     /\ pc' = "returned"
                     /\ UNCHANGED <<session_id, user_message>>
                ELSE /\ session_id' = sid
                     /\ user_message' = message
                     /\ pc' = "start"
                     /\ UNCHANGED <<sent, closed>>
    /\ UNCHANGED <<SESSIONS, turns, others, messages, summary_messages, tool_calls_made,
                   tool_names_in_order,
                   full_response, final_response, tc_pos, n_chunks, history>>

(* agent.py:313-314: the session is fetched (created on first reference) and
   the user message appended *)
StartTurn ==
    /\ pc = "start"
    /\ LET existing == get_session(SESSIONS, session_id)
       IN  /\ SESSIONS' = [existing EXCEPT ![session_id].messages =
                              Append(@, Message("user", user_message))]
           /\ count_at_start' = existing[session_id].tool_calls_count
           /\ msgs_at_start' = existing[session_id].messages
           /\ summary_at_start' = existing[session_id].investigation_summary
    /\ pc' = "build"
    /\ UNCHANGED <<escaped, turns, others, sent, closed, locals, deltas_seen, first_text, final_deltas,
                   executor_calls, sessions_at_accept, faults, second_requested>>

(* agent.py:316-336: the agent and the prompt are built; build_agent_async is
   outside the try block, so whatever it raises leaves the generator *)
BuildPrompt ==
    /\ pc = "build"
    /\ messages' = FirstMessages(SESSIONS[session_id], user_message)
    /\ full_response' = <<>>
    /\ tool_calls_made' = <<>>
    /\ pc' = "create1"
    /\ UNCHANGED <<SESSIONS, turns, others, sent, closed, raw, session_id, user_message,
                   summary_messages, tool_names_in_order, final_response, tc_pos,
                   n_chunks, history>>

BuildFails(e) ==
    /\ pc = "build"
    /\ faults' = Append(faults, Fault("build", e))
    /\ MainOnException(e)
    /\ UNCHANGED <<SESSIONS, turns, others, locals, deltas_seen, first_text, final_deltas,
                   executor_calls, count_at_start, msgs_at_start, summary_at_start,
                   sessions_at_accept, second_requested>>

(* agent.py:339-346: the first completion request *)
CreateFirst ==
    /\ pc = "create1"
    /\ pc' = "stream1"
    /\ UNCHANGED <<SESSIONS, turns, others, sent, closed, locals, history>>

(* agent.py:339, 348: the first completion request, or the reading of its
   stream, raises *)
FirstCompletionFails(e) ==
    /\ pc \in {"create1", "stream1"}
    /\ faults' = Append(faults, Fault("first", e))
    /\ GeneratorExcept(SESSIONS, e)
    /\ UNCHANGED <<turns, others, locals, deltas_seen, first_text, final_deltas,
                   executor_calls, count_at_start, msgs_at_start, summary_at_start,
                   sessions_at_accept, second_requested>>

(* agent.py:348-351: a chunk of the first stream that carries text only; the
   loop reads delta.tool_calls alone *)
FirstStreamContent(content) ==
    /\ pc = "stream1"
    /\ n_chunks' = n_chunks + 1
    /\ first_text' = first_text \o content
    /\ UNCHANGED <<escaped, SESSIONS, turns, others, pc, sent, closed, raw, session_id, user_message,
                   messages, summary_messages, tool_calls_made, tool_names_in_order,
                   full_response,
                   final_response, tc_pos, deltas_seen, final_deltas,
                   executor_calls, count_at_start, msgs_at_start, summary_at_start,
                   sessions_at_accept, faults, second_requested>>

(* agent.py:348-370: a chunk of the first stream that carries a tool-call delta *)
FirstStreamToolDelta(d) ==
    /\ pc = "stream1"
    /\ n_chunks' = n_chunks + 1
    /\ tool_calls_made' = AccumulateDelta(tool_calls_made, d)
    /\ deltas_seen' = Append(deltas_seen, d)
    /\ UNCHANGED <<escaped, SESSIONS, turns, others, pc, sent, closed, raw, session_id, user_message,
                   messages, summary_messages, tool_names_in_order, full_response,
                   final_response,
                   tc_pos, first_text, final_deltas, executor_calls, count_at_start,
                   msgs_at_start, summary_at_start, sessions_at_accept, faults,
                   second_requested>>

(* agent.py:372-396, 491-495: the first stream ends.  Without any tool-call
   entry the turn is over; otherwise the assistant tool-call record is added to
   the prompt (when a call is named) and the loop over the calls starts. *)
FirstStreamEnds ==
    /\ pc = "stream1"
    /\ IF tool_calls_made = <<>>
       THEN /\ FinishTurn(SESSIONS, <<>>, full_response)
            /\ UNCHANGED <<messages, tool_names_in_order, tc_pos>>
       ELSE /\ tool_names_in_order' = ToolNamesInOrder(tool_calls_made)
            /\ messages' =
                 IF ToolCallsForMessage(tool_calls_made) # <<>>
                 THEN Append(messages,
                        PromptMessage("assistant",
                            IF full_response # <<>> THEN full_response ELSE NoneText,
                            ToolCallsForMessage(tool_calls_made), None))
                 ELSE messages
            /\ tc_pos' = 1
            /\ pc' = "tools"
            /\ UNCHANGED <<SESSIONS, sent, closed>>
    /\ UNCHANGED <<turns, others, raw, session_id, user_message, summary_messages,
                   tool_calls_made, full_response, final_response, n_chunks, history>>

----------------------------------------------------------------------------
(* agent.py:398-439: the loop over tool_calls_made, one entry per step *)

\* ToolMessage without the id of the call
ToolMessage_NoId(tc, content) == PromptMessage("tool", content, <<>>, None)

ToolMessage(tc, content) == PromptMessage("tool", content, <<>>, tc.id)

\* agent.py:400
CountToolCall(sessions, sid) ==
    [sessions EXCEPT ![sid].tool_calls_count = @ + 1]

\* agent.py:399: an entry without a name is passed over
SkipUnnamedCall ==
    /\ pc = "tools"
    /\ tc_pos <= Len(tool_calls_made)
    /\ ~IsNamed(tool_calls_made[tc_pos])
    /\ tc_pos' = tc_pos + 1
    /\ UNCHANGED <<SESSIONS, turns, others, pc, sent, closed, raw, session_id, user_message,
                   messages, summary_messages, tool_calls_made, tool_names_in_order,
                   full_response, final_response, n_chunks, history>>

\* agent.py:400-407, 418-430: the argument text of a named call does not parse
ToolArgumentsInvalid ==
    /\ pc = "tools"
    /\ tc_pos <= Len(tool_calls_made)
    /\ LET tc == tool_calls_made[tc_pos]
       IN  /\ IsNamed(tc)
           /\ ~ParseArguments(tc.arguments).ok
           /\ SESSIONS' = CountToolCall(SESSIONS, session_id)
           /\ messages' = Append(messages,
                  ToolMessage(tc, <<"Error: invalid arguments - ", "JSONDecodeError">>))
    /\ tc_pos' = tc_pos + 1
    /\ UNCHANGED <<turns, others, pc, sent, closed, raw, session_id, user_message, summary_messages,
                   tool_calls_made, tool_names_in_order, full_response,
                   final_response, n_chunks, history>>

\* agent.py:400-417: a named call is executed and returns
ToolCallReturns ==
    /\ pc = "tools"
    /\ tc_pos <= Len(tool_calls_made)
    /\ LET tc == tool_calls_made[tc_pos]
           args == ParseArguments(tc.arguments)
       IN  /\ IsNamed(tc)
           /\ args.ok
           /\ \E out \in ExecuteToolOutcomes(tc.name, args.value) :
                /\ out.kind = "return"
                /\ messages' = Append(messages, ToolMessage(tc, out.value))
           /\ SESSIONS' = CountToolCall(SESSIONS, session_id)
           /\ executor_calls' = Append(executor_calls,
                  [pos |-> tc_pos, name |-> tc.name, arguments |-> args.value])
    /\ tc_pos' = tc_pos + 1
    /\ UNCHANGED <<escaped, turns, others, pc, sent, closed, raw, session_id, user_message, summary_messages,
                   tool_calls_made, tool_names_in_order, full_response,
                   final_response, n_chunks, deltas_seen, first_text, final_deltas,
                   count_at_start, msgs_at_start, summary_at_start,
                   sessions_at_accept, faults, second_requested>>

\* agent.py:400-410, 418-439: a named call is executed and raises; the except
\* clauses of the loop record a JSONDecodeError, an OSError or a ValueError
\* as the call's result
ToolCallRaisesCaught ==
    /\ pc = "tools"
    /\ tc_pos <= Len(tool_calls_made)
    /\ LET tc == tool_calls_made[tc_pos]
           args == ParseArguments(tc.arguments)
       IN  /\ IsNamed(tc)
           /\ args.ok
           /\ \E out \in ExecuteToolOutcomes(tc.name, args.value) :
                /\ out.kind = "raise"
                /\ Catches({"JSONDecodeError", "OSError", "ConnectionError",
                            "TimeoutError", "ValueError"}, out.exc)
                /\ faults' = Append(faults, Fault("tool", out.exc))
                /\ messages' = Append(messages,
                     ToolMessage(tc,
                        IF Catches({"JSONDecodeError"}, out.exc)
                        THEN <<"Error: invalid arguments - ", out.exc>>
                        ELSE <<"Error: ", out.exc>>))
           /\ SESSIONS' = CountToolCall(SESSIONS, session_id)
           /\ executor_calls' = Append(executor_calls,
                  [pos |-> tc_pos, name |-> tc.name, arguments |-> args.value])
    /\ tc_pos' = tc_pos + 1
    /\ UNCHANGED <<escaped, turns, others, pc, sent, closed, raw, session_id, user_message, summary_messages,
                   tool_calls_made, tool_names_in_order, full_response,
                   final_response, n_chunks, deltas_seen, first_text, final_deltas,
                   count_at_start, msgs_at_start, summary_at_start,
                   sessions_at_accept, second_requested>>

\* agent.py:400-410, 487: a named call is executed and raises an exception of
\* a class the loop does not catch; it reaches the except clause of the turn
ToolCallRaisesUncaught ==
    /\ pc = "tools"
    /\ tc_pos <= Len(tool_calls_made)
    /\ LET tc == tool_calls_made[tc_pos]
           args == ParseArguments(tc.arguments)
       IN  /\ IsNamed(tc)
           /\ args.ok
           /\ \E out \in ExecuteToolOutcomes(tc.name, args.value) :
                /\ out.kind = "raise"
                /\ ~Catches({"JSONDecodeError", "OSError", "ConnectionError",
                             "TimeoutError", "ValueError"}, out.exc)
                /\ faults' = Append(faults, Fault("tool", out.exc))
                /\ GeneratorExcept(CountToolCall(SESSIONS, session_id), out.exc)
           /\ executor_calls' = Append(executor_calls,
                  [pos |-> tc_pos, name |-> tc.name, arguments |-> args.value])
    /\ UNCHANGED <<turns, others, locals, deltas_seen, first_text, final_deltas,
                   count_at_start, msgs_at_start, summary_at_start,
                   sessions_at_accept, second_requested>>

----------------------------------------------------------------------------
(* agent.py:441-451: the Investigation Steps tokens, after the loop *)

\* StepsTokens with the bare header for an empty list
StepsTokens_NoNotice(names) ==
    << TokenFrame(<<"\nInvestigation Steps:\n">>) >>
    \o [i \in 1..Len(names) |-> TokenFrame(<<ToString(i), ". ", names[i], "\n">>)]

StepsTokens(names) ==
    IF names # <<>>
    THEN << TokenFrame(<<"\nInvestigation Steps:\n">>) >>
         \o [i \in 1..Len(names) |-> TokenFrame(<<ToString(i), ". ", names[i], "\n">>)]
    ELSE << TokenFrame(<<"\nInvestigation Steps:\n",
                         "(no tools were called for this query)\n">>) >>

EmitSteps ==
    /\ pc = "tools"
    /\ tc_pos > Len(tool_calls_made)
    /\ sent' = sent \o StepsTokens(tool_names_in_order)
    /\ pc' = "create2"
    /\ UNCHANGED <<SESSIONS, turns, others, closed, locals, history>>

----------------------------------------------------------------------------
(* agent.py:453-485: the second completion *)

SummaryInstruction ==
    PromptMessage("system", <<"final thoughts instruction">>, <<>>, None)

\* agent.py:482-483: one token per character of the delta
CharTokens(content) == [k \in 1..Len(content) |-> TokenFrame(<<content[k]>>)]

\* agent.py:453-476: the request is issued and "Thoughts:" is yielded
CreateSecond ==
    /\ pc = "create2"
    /\ summary_messages' = Append(messages, SummaryInstruction)
    /\ second_requested' = TRUE
    /\ sent' = Append(sent, TokenFrame(<<"\nThoughts:\n">>))
    /\ final_response' = <<>>
    /\ pc' = "stream2"
    /\ UNCHANGED <<escaped, SESSIONS, turns, others, closed, raw, session_id, user_message, messages,
                   tool_calls_made, tool_names_in_order, full_response, tc_pos,
                   n_chunks,
                   deltas_seen, first_text, final_deltas, executor_calls,
                   count_at_start, msgs_at_start, summary_at_start,
                   sessions_at_accept, faults>>

\* agent.py:468, 477: the second completion request, or the reading of its
\* stream, raises
SecondCompletionFails(e) ==
    /\ pc \in {"create2", "stream2"}
    /\ summary_messages' = Append(messages, SummaryInstruction)
    /\ second_requested' = TRUE
    /\ faults' = Append(faults, Fault("second", e))
    /\ GeneratorExcept(SESSIONS, e)
    /\ UNCHANGED <<turns, others, raw, session_id, user_message, messages, tool_calls_made,
                   tool_names_in_order, full_response, final_response, tc_pos,
                   n_chunks, deltas_seen, first_text, final_deltas, executor_calls,
                   count_at_start, msgs_at_start, summary_at_start,
                   sessions_at_accept>>

\* agent.py:477-483: a content delta of the second stream
SecondStreamContent(content) ==
    /\ pc = "stream2"
    /\ n_chunks' = n_chunks + 1
    /\ final_response' = final_response \o content
    /\ final_deltas' = Append(final_deltas, content)
    /\ sent' = sent \o CharTokens(content)
    /\ UNCHANGED <<escaped, SESSIONS, turns, others, pc, closed, raw, session_id, user_message, messages,
                   summary_messages, tool_calls_made, tool_names_in_order,
                   full_response, tc_pos, deltas_seen, first_text, executor_calls,
                   count_at_start, msgs_at_start, summary_at_start,
                   sessions_at_accept, faults, second_requested>>

\* agent.py:485, 491-495: the second stream ends
SecondStreamEnds ==
    /\ pc = "stream2"
    /\ full_response' = final_response
    /\ FinishTurn(SESSIONS, <<>>, final_response)
    /\ UNCHANGED <<turns, others, raw, session_id, user_message, messages, summary_messages,
                   tool_calls_made, tool_names_in_order, final_response, tc_pos,
                   n_chunks, history>>

----------------------------------------------------------------------------
(* main.py:104-123: the handler has ended; another connection is accepted.
   Everything but SESSIONS is local to a connection. *)

NewConnection ==
    /\ pc \in {"returned", "crashed"}
    /\ turns < MaxTurns
    /\ turns' = turns + 1
    /\ pc' = "accepted"
    /\ sent' = <<>>
    /\ closed' = FALSE
    /\ raw' = NoRequest
    /\ escaped' = None
    /\ session_id' = None
    /\ user_message' = <<>>
    /\ messages' = <<>>
    /\ summary_messages' = <<>>
    /\ tool_calls_made' = <<>>
    /\ tool_names_in_order' = <<>>
    /\ full_response' = <<>>
    /\ final_response' = <<>>
    /\ tc_pos' = 1
    /\ deltas_seen' = <<>>
    /\ first_text' = <<>>
    /\ final_deltas' = <<>>
    /\ executor_calls' = <<>>
    /\ count_at_start' = 0
    /\ msgs_at_start' = <<>>
    /\ summary_at_start' = <<>>
    /\ sessions_at_accept' = SESSIONS
    /\ faults' = <<>>
    /\ second_requested' = FALSE
    /\ UNCHANGED <<SESSIONS, n_chunks, others>>

----------------------------------------------------------------------------

Next ==
    \/ \E request \in RawPayloads : ReceiveRequest(request)
    \/ StartTurn
    \/ BuildPrompt
    \/ \E e \in ExcClasses : BuildFails(e)
    \/ CreateFirst
    \/ \E e \in ExcClasses : FirstCompletionFails(e)
    \/ \E c \in FirstContents : n_chunks < MaxChunks /\ FirstStreamContent(c)
    \/ \E d \in TurnDeltas : n_chunks < MaxChunks /\ FirstStreamToolDelta(d)
    \/ FirstStreamEnds
    \/ SkipUnnamedCall
    \/ ToolArgumentsInvalid
    \/ ToolCallReturns
    \/ ToolCallRaisesCaught
    \/ ToolCallRaisesUncaught
    \/ EmitSteps
    \/ CreateSecond
    \/ \E e \in ExcClasses : SecondCompletionFails(e)
    \/ \E c \in FinalContents : n_chunks < MaxChunks /\ SecondStreamContent(c)
    \/ SecondStreamEnds
    \/ NewConnection

Spec == Init /\ [][Next]_vars

----------------------------------------------------------------------------
(* Cancellation.  The client closes the connection while the turn runs: the
   send_json of main.py:147 (or of main.py:160) raises, the body of the
   `async for` is left, and run_agent_stream stays suspended at the yield of
   the token that could not be sent.  It is never resumed: when it is
   finalised GeneratorExit is raised at that yield, which the except clause
   of agent.py:487 does not name, so agent.py:491-495 is not executed. *)

\* What starlette raises from a send on a connection the client closed
SendErrors == {"WebSocketDisconnect", "RuntimeError"}

\* The generator abandoned at a yield, with the answer committed all the same
AbandonedGenerator_Commits(sessions, sid, answer) == CommitAnswer(sessions, sid, answer)

\* agent.py:483, 487-495: what the generator abandoned at a yield does to
\* the sessions (`answer` is the text accumulated so far)
AbandonedGenerator(sessions, sid, answer) == sessions

\* main.py:168-179: WebSocketDisconnect is logged; for a RuntimeError the
\* error frame cannot be sent either (main.py:172-175) and the handler closes
\* its side.  Sets closed', pc' and escaped'.
MainOnSendFailure(e, at) ==
    /\ closed' = (closed \/ e = "RuntimeError")
    /\ pc' = at
    /\ escaped' = escaped

\* main.py:147 fails on one of the Investigation Steps tokens, after n of them
SendFailsAtSteps(e, n) ==
    /\ pc = "tools"
    /\ tc_pos > Len(tool_calls_made)
    /\ n < Len(StepsTokens(tool_names_in_order))
    /\ sent' = sent \o Take(StepsTokens(tool_names_in_order), n)
    /\ SESSIONS' = AbandonedGenerator(SESSIONS, session_id, full_response)
    /\ MainOnSendFailure(e, "disconnected_token")
    /\ UNCHANGED <<turns, others, locals, history>>

\* main.py:147 fails on the "Thoughts:" token (agent.py:475)
SendFailsAtThoughts(e) ==
    /\ pc = "create2"
    /\ summary_messages' = Append(messages, SummaryInstruction)
    /\ second_requested' = TRUE
    /\ SESSIONS' = AbandonedGenerator(SESSIONS, session_id, full_response)
    /\ MainOnSendFailure(e, "disconnected_token")
    /\ UNCHANGED <<turns, others, sent, raw, session_id, user_message, messages,
                   tool_calls_made, tool_names_in_order, full_response, final_response,
                   tc_pos, n_chunks, deltas_seen, first_text, final_deltas,
                   executor_calls, count_at_start, msgs_at_start, summary_at_start,
                   sessions_at_accept, faults>>

\* main.py:147 fails on a character of a content delta of the second stream
\* (agent.py:481-483), after n characters of the delta were sent
SendFailsInStream(e, content, n) ==
    /\ pc = "stream2"
    /\ n < Len(content)
    /\ n_chunks' = n_chunks + 1
    /\ final_response' = final_response \o content
    /\ final_deltas' = Append(final_deltas, content)
    /\ sent' = sent \o Take(CharTokens(content), n)
    /\ SESSIONS' = AbandonedGenerator(SESSIONS, session_id, final_response \o content)
    /\ MainOnSendFailure(e, "disconnected_token")
    /\ UNCHANGED <<turns, others, raw, session_id, user_message, messages,
                   summary_messages, tool_calls_made, tool_names_in_order,
                   full_response, tc_pos, deltas_seen, first_text, executor_calls,
                   count_at_start, msgs_at_start, summary_at_start,
                   sessions_at_accept, faults, second_requested>>

\* agent.py:485, 491-495, main.py:160: the second stream ends and the answer
\* is committed, every token having been sent; the done frame cannot be sent
DoneSendFails(e) ==
    /\ pc = "stream2"
    /\ full_response' = final_response
    /\ SESSIONS' = CommitAnswer(SESSIONS, session_id, final_response)
    /\ MainOnSendFailure(e, "disconnected_done")
    /\ UNCHANGED <<turns, others, sent, raw, session_id, user_message, messages,
                   summary_messages, tool_calls_made, tool_names_in_order,
                   final_response, tc_pos, n_chunks, history>>

\* Numbers of characters of a delta sent before the failure
SentBefore(content) == {0, 1, Len(content) - 1} \cap 0..(Len(content) - 1)

NextCancel ==
    \/ Next
    \/ \E e \in SendErrors, n \in 0..2 : SendFailsAtSteps(e, n)
    \/ \E e \in SendErrors : SendFailsAtThoughts(e)
    \/ \E e \in SendErrors, c \in FinalContents :
          \E n \in SentBefore(c) : n_chunks < MaxChunks /\ SendFailsInStream(e, c, n)
    \/ \E e \in SendErrors : DoneSendFails(e)

SpecCancel == Init /\ [][NextCancel]_vars

----------------------------------------------------------------------------
(* The accumulation loop alone (agent.py:348-370): one turn, whose first
   completion stream carries any sequence of up to MaxStreamDeltas tool-call
   deltas, each with any index, id, name and argument fragment. *)

AllDeltas ==
    {ToolCallDelta(i, id, name, arguments) :
        i \in DeltaIndexes, id \in {"", "call_a"}, name \in {"", "get_order"},
        arguments \in {<<>>, <<"{">>, <<"}">>}}
    \cup {ToolCallDelta(NoIndex, "call_a", "get_order", <<"{">>)}

DeltasPayload == [kind |-> "object", session_id |-> None, message |-> <<" ", "h", "i">>]

NextDeltas ==
    \/ ReceiveRequest(DeltasPayload)
    \/ StartTurn
    \/ BuildPrompt
    \/ CreateFirst
    \/ \E d \in AllDeltas : Len(deltas_seen) < MaxStreamDeltas /\ FirstStreamToolDelta(d)

SpecDeltas == Init /\ [][NextDeltas]_vars

----------------------------------------------------------------------------
(* The client's frame interpreter (client/app.py:35-170).  A reply is text
   made of the symbols of Alphabet: a blank, a plain character, the braces,
   and the member text of a JSON object as one symbol each (member texts hold
   no brace). *)

ToolsAndThoughts == "\"tools\":[\"a\",\"b\"],\"thoughts\":\" t \""

Unrecognized == "\"x\":1"

MemberTexts == {ToolsAndThoughts, Unrecognized}

Alphabet == {" ", "H", "{", "}"} \cup MemberTexts

\* The data of a token frame: one symbol, or a larger piece that carries text
\* after a closing brace
FrameData == {<<c>> : c \in Alphabet} \cup {<<"}", "H">>, <<"}", "H", "}">>}

ToolKeys == <<"tools", "tool_calls", "called_tools", "tools_used">>

ThoughtKeys == <<"thoughts", "analysis", "reasoning", "plan">>

ObjectKeys == {"tools", "tool_calls", "called_tools", "tools_used",
               "thoughts", "analysis", "reasoning", "plan", "x"}

\* A parsed object: key -> value; a key the object lacks maps to <<>>, which
\* is falsy as the None of dict.get is
EmptyObject == [k \in ObjectKeys |-> <<>>]

\* json.loads of one member text
MemberObject(m) ==
    IF m = ToolsAndThoughts
    THEN [EmptyObject EXCEPT !["tools"] = <<"a", "b">>, !["thoughts"] = <<" ", "t", " ">>]
    ELSE [EmptyObject EXCEPT !["x"] = <<"1">>]

RECURSIVE Concat(_)
\* "".join(texts): the texts of a sequence, one after the other
Concat(texts) == IF texts = <<>> THEN <<>> ELSE Head(texts) \o Concat(Tail(texts))

\* str.lstrip
LStrip(text) ==
    LET blanks == {k \in 1..Len(text) : \A j \in 1..k : text[j] = " "}
    IN  SubSeq(text, Cardinality(blanks) + 1, Len(text))

\* str.rfind("}") as a position from 1, 0 when there is none
LastBrace(text) ==
    LET at == {k \in 1..Len(text) : text[k] = "}"}
    IN  IF at = {} THEN 0 ELSE CHOOSE k \in at : \A j \in at : j <= k

\* app.py:163-166: json.loads of a candidate that starts with "{" and ends
\* with "}": blanks aside, what is between the braces is nothing or one member
ClientJsonLoads(candidate) ==
    LET inner == SelectSeq(SubSeq(candidate, 2, Len(candidate) - 1),
                           LAMBDA c : c # " ")
    IN  IF inner = <<>> THEN [ok |-> TRUE, obj |-> EmptyObject]
        ELSE IF Len(inner) = 1 /\ inner[1] \in MemberTexts
        THEN [ok |-> TRUE, obj |-> MemberObject(inner[1])]
        ELSE [ok |-> FALSE, obj |-> EmptyObject]

\* app.py:107-118: the first truthy value among the keys, or a falsy one
FirstTruthy(obj, keys) ==
    LET hits == {k \in 1..Len(keys) : obj[keys[k]] # <<>>}
    IN  IF hits = {} THEN <<>>
        ELSE obj[keys[CHOOSE k \in hits : \A j \in hits : k <= j]]

\* FormatJsonPrefix that shows an object it does not recognize
FormatJsonPrefix_ShowsUnknown(obj) == <<"{...}">>

\* app.py:98-140
FormatJsonPrefix(obj) ==
    LET tools == FirstTruthy(obj, ToolKeys)
        thoughts == FirstTruthy(obj, ThoughtKeys)
        steps == IF tools = <<>> THEN <<>>
                 ELSE <<"Investigation Steps:\n">>
                      \o Concat([i \in 1..Len(tools) |-> <<ToString(i), ". ", tools[i], "\n">>])
        rationale == IF thoughts = <<>> THEN <<>>
                     ELSE <<"\nThoughts:\n">> \o Strip(thoughts) \o <<"\n\n">>
    IN  steps \o rationale

NotParsed == <<>>

\* app.py:143-170: (replacement, remaining, still_in_prefix); `parsed` records
\* the object json.loads returned and the text it was read from
ProcessLeadingJson(buffer) ==
    LET s == LStrip(buffer)
        last_brace == LastBrace(s)
        candidate == SubSeq(s, 1, last_brace)
        parsed == ClientJsonLoads(candidate)
        unsure == [replacement |-> <<>>, remaining |-> <<>>, still_prefix |-> TRUE,
                   parsed |-> NotParsed]
    IN  IF s = <<>> THEN unsure
        ELSE IF s[1] # "{"
        THEN [replacement |-> <<>>, remaining |-> buffer, still_prefix |-> FALSE,
              parsed |-> NotParsed]
        ELSE IF last_brace = 0 THEN unsure
        ELSE IF ~parsed.ok THEN unsure
        ELSE [replacement |-> FormatJsonPrefix(parsed.obj),
              remaining |-> SubSeq(s, last_brace + 1, Len(s)),
              still_prefix |-> FALSE,
              parsed |-> << [obj |-> parsed.obj, text |-> candidate] >>]

\* The interpreter's state as one value
ClientState(buffer, prefix, out, parsed) ==
    [prefix_buffer |-> buffer, in_prefix |-> prefix, emitted |-> out, parsed_obj |-> parsed]

ClientStart == ClientState(<<>>, TRUE, <<>>, NotParsed)

\* app.py:58-69: a token frame while in the prefix
OnPrefixToken(st, token) ==
    LET buffer == st.prefix_buffer \o token
        r == ProcessLeadingJson(buffer)
    IN  ClientState(buffer, r.still_prefix,
                    IF r.still_prefix THEN st.emitted
                    ELSE st.emitted \o r.replacement \o r.remaining,
                    r.parsed)

\* OnToken with the tokens after the prefix dropped
OnToken_DropsLater(st, token) ==
    IF st.in_prefix THEN OnPrefixToken(st, token) ELSE st

\* app.py:56-72: a token frame
OnToken(st, token) ==
    IF st.in_prefix
    THEN OnPrefixToken(st, token)
    ELSE [st EXCEPT !.emitted = @ \o token]

\* app.py:74-83: the done frame
OnDone(st) ==
    IF st.in_prefix /\ st.prefix_buffer # <<>>
    THEN [st EXCEPT !.emitted = @ \o st.prefix_buffer]
    ELSE st

\* app.py:84-87: the error frame: RuntimeError is raised, nothing is yielded
OnError(st) == st

RECURSIVE RunTokens(_)
\* The interpreter after the token frames of `frames`, from its start state
RunTokens(frames) ==
    IF frames = <<>> THEN ClientStart
    ELSE OnToken(RunTokens(SubSeq(frames, 1, Len(frames) - 1)), frames[Len(frames)])

Current == ClientState(prefix_buffer, in_prefix, emitted, parsed_obj)

Becomes(st) ==
    /\ prefix_buffer' = st.prefix_buffer
    /\ in_prefix' = st.in_prefix
    /\ emitted' = st.emitted
    /\ parsed_obj' = st.parsed_obj

server_vars == <<SESSIONS, turns, pc, sent, closed, locals, history>>

RecvToken(token) ==
    /\ client_pc = "receiving"
    /\ Len(frames_in) < MaxFrames
    /\ Becomes(OnToken(Current, token))
    /\ frames_in' = Append(frames_in, token)
    /\ UNCHANGED <<client_pc, server_vars, registry_vars, service_vars, concurrent_vars>>

RecvDone ==
    /\ client_pc = "receiving"
    /\ Becomes(OnDone(Current))
    /\ client_pc' = "done"
    /\ UNCHANGED <<frames_in, server_vars, registry_vars, service_vars, concurrent_vars>>

RecvError ==
    /\ client_pc = "receiving"
    /\ Becomes(OnError(Current))
    /\ client_pc' = "error"
    /\ UNCHANGED <<frames_in, server_vars, registry_vars, service_vars, concurrent_vars>>

NextClient ==
    \/ \E token \in FrameData : RecvToken(token)
    \/ RecvDone
    \/ RecvError

SpecClient == Init /\ [][NextClient]_vars

----------------------------------------------------------------------------
(* The tool registry (agent.py:60-240): the cached schemas of the remote
   sources and the executor.  A source is "unconfigured" (no command: never
   contacted), "down" (contacting it raises an OSError, ConnectionError or
   TimeoutError), "broken" (contacting it raises an exception of another
   class) or "up" (it lists its tools). *)

SourceStates == {"unconfigured", "down", "broken", "up"}

\* The tools each source lists, in its order; the first source lists a tool
\* that has the name of an in-process function
AdvertisedList(s) ==
    CASE s = "jewelryops_mysql" -> <<"get_order", "extract_entities">>
      [] s = "notion_mock" -> <<"get_order", "search_notes">>
      [] s = "gmail_mock" -> <<"send_email">>

Advertised(s) == {AdvertisedList(s)[k] : k \in 1..Len(AdvertisedList(s))}

ToolNames == CustomFunctions \cup {"get_order", "search_notes", "send_email", "no_such_tool"}

\* What session.call_tool gives (agent.py:226): a result with its content
\* items (each the item's text, NoneText for a text of None), or an exception
CallReplies ==
    {[kind |-> "result", content |-> << <<"r", "1">>, <<"r", "2">> >>],
     [kind |-> "result", content |-> << NoneText >>],
     [kind |-> "result", content |-> <<>>],
     [kind |-> "transport_error", content |-> <<>>],
     [kind |-> "other_error", content |-> <<>>]}

\* The source is not asked
NoReply == [kind |-> "none", content |-> <<>>]

\* agent.py:229: json.dumps(result, indent=2, default=str), one symbol
ResultDump == <<"json.dumps(result)">>

\* ResultText that takes the last content item
ResultText_LastItem(content) ==
    IF content # <<>>
    THEN IF content[Len(content)] = NoneText THEN <<>> ELSE content[Len(content)]
    ELSE ResultDump

\* agent.py:227-229: what execute returns for a remote result
ResultText(content) ==
    IF content # <<>>
    THEN IF content[1] = NoneText THEN <<>> ELSE content[1]
    ELSE ResultDump

\* InProcess that never finds the name
InProcess_Never(name) == FALSE

\* agent.py:169-170: the name is in the in-process function map
InProcess(name) == name \in CustomFunctions

Outcome(kind, value, exc, invoked, contacted) ==
    [kind |-> kind, value |-> value, exc |-> exc, invoked |-> invoked,
     contacted |-> contacted]

RECURSIVE ProbeFrom(_, _, _, _, _)
\* agent.py:199-240: the loop over the sources of `order` from position k on
ProbeFrom(order, k, name, env, replies) ==
    IF k > Len(order)
    THEN Outcome("return", ToolNotFound(name), None, <<>>, <<>>)
    ELSE LET s == order[k]
             rest == ProbeFrom(order, k + 1, name, env, replies)
             passed == [rest EXCEPT !.contacted = <<s>> \o @]
         IN  CASE env[s] = "unconfigured" -> rest
               [] env[s] = "down" -> passed
               [] env[s] = "broken" -> Outcome("raise", <<>>, "Exception", <<>>, <<s>>)
               [] env[s] = "up" ->
                    IF name \notin Advertised(s) THEN passed
                    ELSE CASE replies[s].kind = "result" ->
                                 Outcome("return", ResultText(replies[s].content), None,
                                         <<s>>, <<s>>)
                           [] replies[s].kind = "transport_error" ->
                                 [passed EXCEPT !.invoked = <<s>> \o @]
                           [] OTHER ->
                                 Outcome("raise", <<>>, "Exception", <<s>>, <<s>>)

\* agent.py:158-240: execute_tool_async for a name, with the sources and
\* their replies as they are
ExecuteTool(name, arguments, replies) ==
    /\ n_ops < MaxOps
    /\ n_ops' = n_ops + 1
    /\ IF InProcess(name)
       THEN \E out \in ExecuteToolOutcomes(name, arguments) :
              /\ last_op' = [NoOp EXCEPT !.op = "execute", !.name = name,
                               !.kind = out.kind, !.value = out.value, !.exc = out.exc,
                               !.in_process = TRUE]
              /\ contacts' = <<>>
       ELSE LET out == ProbeFrom(mcp_configs, 1, name, sources, replies)
            IN  /\ last_op' = [NoOp EXCEPT !.op = "execute", !.name = name,
                                 !.kind = out.kind, !.value = out.value, !.exc = out.exc,
                                 !.invoked = out.invoked, !.replies = replies]
                /\ contacts' = out.contacted
    /\ UNCHANGED <<mcp_tools_cache, sources, load_failed, client_vars, server_vars, service_vars, concurrent_vars>>

RECURSIVE LoadFrom(_, _)
\* agent.py:88-137: the loop of _load_mcp_tools_async from position k on
LoadFrom(k, env) ==
    IF k > Len(mcp_configs)
    THEN [raised |-> FALSE, tools |-> <<>>, failed |-> {}, contacted |-> <<>>]
    ELSE LET s == mcp_configs[k]
             rest == LoadFrom(k + 1, env)
         IN  CASE env[s] = "unconfigured" -> rest
               [] env[s] = "down" ->
                    [rest EXCEPT !.failed = {s} \cup @, !.contacted = <<s>> \o @]
               [] env[s] = "broken" ->
                    [raised |-> TRUE, tools |-> <<>>, failed |-> {}, contacted |-> <<s>>]
               [] env[s] = "up" ->
                    [rest EXCEPT !.tools = AdvertisedList(s) \o @,
                                 !.contacted = <<s>> \o @]

\* agent.py:139-147: get_mcp_tools_async with the cache empty (None)
LoadMcpTools ==
    /\ n_ops < MaxOps
    /\ ~mcp_tools_cache.loaded
    /\ n_ops' = n_ops + 1
    /\ LET r == LoadFrom(1, sources)
       IN  /\ contacts' = r.contacted
           /\ IF r.raised
              THEN /\ last_op' = [NoOp EXCEPT !.op = "get_tools", !.kind = "raise",
                                    !.exc = "Exception"]
                   /\ UNCHANGED <<mcp_tools_cache, load_failed>>
              ELSE /\ mcp_tools_cache' = [loaded |-> TRUE, tools |-> r.tools]
                   /\ load_failed' = r.failed
                   /\ last_op' = [NoOp EXCEPT !.op = "get_tools", !.kind = "return",
                                    !.value = r.tools]
    /\ UNCHANGED <<sources, client_vars, server_vars, service_vars, concurrent_vars>>

\* agent.py:145-147: get_mcp_tools_async with the cache set (an empty list
\* is not None)
GetCachedTools ==
    /\ n_ops < MaxOps
    /\ mcp_tools_cache.loaded
    /\ n_ops' = n_ops + 1
    /\ contacts' = <<>>
    /\ last_op' = [NoOp EXCEPT !.op = "get_tools", !.kind = "return",
                     !.value = mcp_tools_cache.tools]
    /\ UNCHANGED <<mcp_tools_cache, sources, load_failed, client_vars, server_vars, service_vars, concurrent_vars>>

\* The environment: a configured source goes down, comes up or starts to
\* fail otherwise (which sources are configured is fixed by the settings)
SourceChanges(s, state) ==
    /\ n_ops < MaxOps
    /\ sources[s] \notin {"unconfigured", state}
    /\ sources' = [sources EXCEPT ![s] = state]
    /\ UNCHANGED <<mcp_tools_cache, contacts, last_op, load_failed, n_ops,
                   client_vars, server_vars, service_vars, concurrent_vars>>

ArgumentSets == {{}, {"query"}}

\* The replies of the sources to call_tool: the same from each source, or a
\* transport error from the first source and a result from the others
ReplyCases ==
    {[s \in SourceNames |-> r] : r \in CallReplies \cup {NoReply}}
    \cup {[s \in SourceNames |->
             IF s = "jewelryops_mysql"
             THEN [kind |-> "transport_error", content |-> <<>>]
             ELSE [kind |-> "result", content |-> << <<"r", "1">>, <<"r", "2">> >>]]}

NextRegistry ==
    \/ \E name \in ToolNames, arguments \in ArgumentSets, replies \in ReplyCases :
          \* the arguments matter to an in-process function only, the replies
          \* to a remote tool only
          /\ name \in CustomFunctions => replies = [s \in SourceNames |-> NoReply]
          /\ name \notin CustomFunctions => arguments = {}
          /\ ExecuteTool(name, arguments, replies)
    \/ LoadMcpTools
    \/ GetCachedTools
    \/ \E s \in SourceNames, state \in SourceStates \ {"unconfigured"} :
          SourceChanges(s, state)

\* A fresh service whose sources are all configured, or all but the last
InitRegistryAny ==
    /\ mcp_tools_cache = NoCache
    /\ sources \in {[s \in SourceNames |-> "up"],
                    [s \in SourceNames |-> IF s = "gmail_mock" THEN "unconfigured" ELSE "up"]}
    /\ contacts = <<>>
    /\ last_op = NoOp
    /\ load_failed = {}
    /\ n_ops = 0

InitAnySources == InitServer /\ InitClient /\ InitRegistryAny /\ InitServices /\ InitConnections

SpecRegistry == InitAnySources /\ [][NextRegistry]_vars

----------------------------------------------------------------------------
(* JSON text.  A text is a sequence of tokens: the punctuation of objects and
   lists, the literals null, true and false, numbers, string literals with
   their characters escaped, and "junk" for anything that is no JSON token. *)

Tok(k) == [k |-> k, s |-> <<>>, n |-> 0]

StrTok(s) == [k |-> "str", s |-> s, n |-> 0]

NumTok(k, n) == [k |-> k, s |-> <<>>, n |-> n]

\* Characters a string literal escapes
Escaped == {"\"", "\\"}

\* The body of a string literal for the characters s
RECURSIVE Escape(_)
Escape(s) ==
    IF s = <<>> THEN <<>>
    ELSE (IF Head(s) \in Escaped THEN <<"\\", Head(s)>> ELSE <<Head(s)>>) \o Escape(Tail(s))

\* A literal's body is well formed: every backslash escapes a character and
\* no quote stands unescaped
RECURSIVE WellEscaped(_)
WellEscaped(s) ==
    IF s = <<>> THEN TRUE
    ELSE IF Head(s) = "\\" THEN Len(s) >= 2 /\ s[2] \in Escaped /\ WellEscaped(Tail(Tail(s)))
    ELSE Head(s) # "\"" /\ WellEscaped(Tail(s))

\* The characters of a well-formed literal's body
RECURSIVE Unescape(_)
Unescape(s) ==
    IF s = <<>> THEN <<>>
    ELSE IF Head(s) = "\\" THEN <<s[2]>> \o Unescape(Tail(Tail(s)))
    ELSE <<Head(s)>> \o Unescape(Tail(s))

\* json.dumps raises TypeError for a value of a type it does not know
RECURSIVE Serializable(_)
Serializable(v) ==
    /\ v.t \in {"NoneType", "str", "int", "float", "bool", "list", "dict"}
    /\ \A k \in 1..Len(v.items) : Serializable(v.items[k])

\* json.dumps(v) for a serializable v
RECURSIVE JsonDumps(_)
RECURSIVE DumpItems(_)
RECURSIVE DumpMembers(_, _)
JsonDumps(v) ==
    CASE v.t = "NoneType" -> <<Tok("null")>>
      [] v.t = "str" -> <<StrTok(Escape(v.s))>>
      [] v.t = "int" -> <<NumTok("int", v.n)>>
      [] v.t = "float" -> <<NumTok("float", v.n)>>
      [] v.t = "bool" -> <<Tok(IF v.n = 1 THEN "true" ELSE "false")>>
      [] v.t = "list" -> <<Tok("[")>> \o DumpItems(v.items) \o <<Tok("]")>>
      [] v.t = "dict" -> <<Tok("{")>> \o DumpMembers(v.keys, v.items) \o <<Tok("}")>>

DumpItems(items) ==
    IF items = <<>> THEN <<>>
    ELSE JsonDumps(Head(items))
         \o (IF Len(items) > 1 THEN <<Tok(",")>> \o DumpItems(Tail(items)) ELSE <<>>)

DumpMembers(keys, items) ==
    IF keys = <<>> THEN <<>>
    ELSE <<StrTok(Escape(Head(keys))), Tok(":")>> \o JsonDumps(Head(items))
         \o (IF Len(keys) > 1 THEN <<Tok(",")>> \o DumpMembers(Tail(keys), Tail(items))
             ELSE <<>>)

\* d[key] = v on a dict: a key already there keeps its place and takes the
\* new value
DictPut(d, key, v) ==
    IF \E k \in 1..Len(d.keys) : d.keys[k] = key
    THEN LET at == CHOOSE k \in 1..Len(d.keys) : d.keys[k] = key
         IN  PyDict(d.keys, [d.items EXCEPT ![at] = v])
    ELSE PyDict(Append(d.keys, key), Append(d.items, v))

\* What the parser gives from a position of the text: the value and the
\* position after it, or a failure
Parsed(v, next) == [ok |-> TRUE, v |-> v, next |-> next]

ParseFailed == [ok |-> FALSE, v |-> PyNone, next |-> 0]

KindAt(text, i) == IF i <= Len(text) THEN text[i].k ELSE "end"

RECURSIVE ParseValue(_, _)
RECURSIVE ParseItems(_, _, _)
RECURSIVE ParseMembers(_, _, _)
ParseValue(text, i) ==
    LET k == KindAt(text, i)
    IN  CASE k = "null" -> Parsed(PyNone, i + 1)
          [] k = "true" -> Parsed(PyBool(TRUE), i + 1)
          [] k = "false" -> Parsed(PyBool(FALSE), i + 1)
          [] k = "int" -> Parsed(PyInt(text[i].n), i + 1)
          [] k = "float" -> Parsed(PyFloat(text[i].n), i + 1)
          [] k = "str" -> IF WellEscaped(text[i].s)
                          THEN Parsed(PyStr(Unescape(text[i].s)), i + 1)
                          ELSE ParseFailed
          [] k = "[" -> IF KindAt(text, i + 1) = "]"
                        THEN Parsed(PyList(<<>>), i + 2)
                        ELSE ParseItems(text, i + 1, <<>>)
          [] k = "{" -> IF KindAt(text, i + 1) = "}"
                        THEN Parsed(PyDict(<<>>, <<>>), i + 2)
                        ELSE ParseMembers(text, i + 1, PyDict(<<>>, <<>>))
          [] OTHER -> ParseFailed

ParseItems(text, i, acc) ==
    LET r == ParseValue(text, i)
    IN  IF ~r.ok THEN ParseFailed
        ELSE IF KindAt(text, r.next) = "," THEN ParseItems(text, r.next + 1, Append(acc, r.v))
        ELSE IF KindAt(text, r.next) = "]" THEN Parsed(PyList(Append(acc, r.v)), r.next + 1)
        ELSE ParseFailed

ParseMembers(text, i, acc) ==
    IF KindAt(text, i) # "str" \/ KindAt(text, i + 1) # ":" THEN ParseFailed
    ELSE IF ~WellEscaped(text[i].s) THEN ParseFailed
    ELSE LET r == ParseValue(text, i + 2)
             d == DictPut(acc, Unescape(text[i].s), r.v)
         IN  IF ~r.ok THEN ParseFailed
             ELSE IF KindAt(text, r.next) = "," THEN ParseMembers(text, r.next + 1, d)
             ELSE IF KindAt(text, r.next) = "}" THEN Parsed(d, r.next + 1)
             ELSE ParseFailed

\* json.loads(text): the value, or JSONDecodeError for text that is no JSON
\* value or has tokens after it
JsonLoads(text) ==
    LET r == ParseValue(text, 1)
    IN  IF r.ok /\ r.next = Len(text) + 1
        THEN [exc |-> None, v |-> r.v]
        ELSE [exc |-> "JSONDecodeError", v |-> PyNone]

----------------------------------------------------------------------------
(* Persistence: RedisCrudService (services/redis.py) and ContextService
   (services/context_service.py).  Every command issued on the Redis client
   either succeeds or raises: redis.exceptions.ConnectionError or
   TimeoutError, which the service catches, or an exception of another class
   (redis.exceptions.ResponseError), which it does not. *)

ClientFaults == {None, "RedisConnectionError", "RedisTimeoutError", "ResponseError"}

\* redis.py:32, 57, 76, 87, 98
CrudCatches(e) == Catches({"RedisConnectionError", "RedisTimeoutError"}, e)

Command(cmd, key, ttl, value) == [cmd |-> cmd, key |-> key, ttl |-> ttl, value |-> value]

\* What a call gives: the client and the data set after it, what it returned
\* or raised, and the commands it issued
CrudResult(client, st, ret, text, exc, commands) ==
    [client |-> client, store |-> st, ret |-> ret, text |-> text, exc |-> exc,
     commands |-> commands]

\* What a call gives when its one command raises e
CrudFailed(client, st, caught_ret, e, commands) ==
    IF CrudCatches(e)
    THEN CrudResult(client, st, caught_ret, <<>>, None, commands)
    ELSE CrudResult(client, st, "raised", <<>>, e, commands)

\* redis.py:21-36: connect
CrudConnect(client, st, fault) ==
    IF client # None THEN CrudResult(client, st, "None", <<>>, None, <<>>)
    ELSE IF fault = None
         THEN CrudResult("Redis", st, "None", <<>>, None, <<Command("ping", <<>>, 0, <<>>)>>)
         ELSE IF CrudCatches(fault)
              THEN CrudResult(None, st, "raised", <<>>, fault,
                              <<Command("ping", <<>>, 0, <<>>), Command("aclose", <<>>, 0, <<>>)>>)
              ELSE CrudResult("Redis", st, "raised", <<>>, fault,
                              <<Command("ping", <<>>, 0, <<>>)>>)

\* redis.py:38-43: close
CrudClose(client, st) ==
    IF client # None
    THEN CrudResult(None, st, "None", <<>>, None, <<Command("aclose", <<>>, 0, <<>>)>>)
    ELSE CrudResult(client, st, "None", <<>>, None, <<>>)

\* get without the test of the client
CrudGet_NoGuard(client, st, key, fault) ==
    LET cmds == <<Command("get", key, 0, <<>>)>>
    IN  IF fault # None THEN CrudFailed(client, st, "None", fault, cmds)
        ELSE IF st[key].present
             THEN CrudResult(client, st, "text", st[key].value, None, cmds)
             ELSE CrudResult(client, st, "None", <<>>, None, cmds)

\* redis.py:50-59: get
CrudGet(client, st, key, fault) ==
    IF client = None THEN CrudResult(client, st, "None", <<>>, None, <<>>)
    ELSE LET cmds == <<Command("get", key, 0, <<>>)>>
         IN  IF fault # None THEN CrudFailed(client, st, "None", fault, cmds)
             ELSE IF st[key].present
                  THEN CrudResult(client, st, "text", st[key].value, None, cmds)
                  ELSE CrudResult(client, st, "None", <<>>, None, cmds)

\* set with the expiry used for every ttl that is given
CrudSet_AnyTtl(client, st, key, value, ttl, fault) ==
    IF client = None THEN CrudResult(client, st, "False", <<>>, None, <<>>)
    ELSE IF ttl.t # "NoneType"
         THEN LET cmds == <<Command("setex", key, ttl.n, value)>>
              IN  IF fault # None THEN CrudFailed(client, st, "False", fault, cmds)
                  ELSE CrudResult(client, [st EXCEPT ![key] = Entry(value, ttl.n)],
                                  "True", <<>>, None, cmds)
         ELSE LET cmds == <<Command("set", key, 0, value)>>
              IN  IF fault # None THEN CrudFailed(client, st, "False", fault, cmds)
                  ELSE CrudResult(client, [st EXCEPT ![key] = Entry(value, 0)],
                                  "True", <<>>, None, cmds)

\* redis.py:61-78: set; ttl is None or an int
CrudSet(client, st, key, value, ttl, fault) ==
    IF client = None THEN CrudResult(client, st, "False", <<>>, None, <<>>)
    ELSE IF ttl.t # "NoneType" /\ ttl.n > 0
         THEN LET cmds == <<Command("setex", key, ttl.n, value)>>
              IN  IF fault # None THEN CrudFailed(client, st, "False", fault, cmds)
                  ELSE CrudResult(client, [st EXCEPT ![key] = Entry(value, ttl.n)],
                                  "True", <<>>, None, cmds)
         ELSE LET cmds == <<Command("set", key, 0, value)>>
              IN  IF fault # None THEN CrudFailed(client, st, "False", fault, cmds)
                  ELSE CrudResult(client, [st EXCEPT ![key] = Entry(value, 0)],
                                  "True", <<>>, None, cmds)

\* redis.py:80-89: delete
CrudDelete(client, st, key, fault) ==
    IF client = None THEN CrudResult(client, st, "False", <<>>, None, <<>>)
    ELSE LET cmds == <<Command("delete", key, 0, <<>>)>>
         IN  IF fault # None THEN CrudFailed(client, st, "False", fault, cmds)
             ELSE CrudResult(client, [st EXCEPT ![key] = NoEntry], "True", <<>>, None, cmds)

\* redis.py:91-100: exists
CrudExists(client, st, key, fault) ==
    IF client = None THEN CrudResult(client, st, "False", <<>>, None, <<>>)
    ELSE LET cmds == <<Command("exists", key, 0, <<>>)>>
         IN  IF fault # None THEN CrudFailed(client, st, "False", fault, cmds)
             ELSE CrudResult(client, st, IF st[key].present THEN "True" ELSE "False",
                             <<>>, None, cmds)

\* redis.py:106: not settings.redis_url or not settings.redis_url.strip()
UrlBlank(url) == url = NoneText \/ url = <<>> \/ Strip(url) = <<>>

\* context_service.py:18-25
session_to_dict(state) ==
    PyDict(<< <<"session_id">>, <<"messages">>, <<"investigation_summary">>,
              <<"tool_calls_count">> >>,
           <<state.session_id, state.messages, state.investigation_summary,
             state.tool_calls_count>>)

\* data.get(key, default) on a dict
DictGet(d, key, default) ==
    IF \E k \in 1..Len(d.keys) : d.keys[k] = key
    THEN d.items[CHOOSE k \in 1..Len(d.keys) : d.keys[k] = key]
    ELSE default

Digits == <<"0", "1", "2", "3", "4", "5", "6", "7", "8", "9">>

IsDigit(c) == \E k \in 1..Len(Digits) : Digits[k] = c

DigitValue(c) == (CHOOSE k \in 1..Len(Digits) : Digits[k] = c) - 1

RECURSIVE DecimalValue(_)
DecimalValue(s) ==
    IF s = <<>> THEN 0 ELSE 10 * DecimalValue(SubSeq(s, 1, Len(s) - 1)) + DigitValue(s[Len(s)])

\* int(v): the int, or the exception int raises
PyIntOf(v) ==
    CASE v.t \in {"int", "bool"} -> [exc |-> None, n |-> v.n]
      [] v.t = "float" -> [exc |-> None, n |-> v.n \div 10]
      [] v.t = "str" -> IF v.s # <<>> /\ \A k \in 1..Len(v.s) : IsDigit(v.s[k])
                        THEN [exc |-> None, n |-> DecimalValue(v.s)]
                        ELSE [exc |-> "ValueError", n |-> 0]
      [] OTHER -> [exc |-> "TypeError", n |-> 0]

\* dict_to_session without the counter
dict_to_session_NoCounter(data) ==
    IF data.t # "dict" THEN [exc |-> "AttributeError", session |-> NoSession]
    ELSE [exc |-> None,
          session |-> PySession(DictGet(data, <<"session_id">>, PyStr(<<>>)),
                                DictGet(data, <<"messages">>, PyList(<<>>)),
                                DictGet(data, <<"investigation_summary">>, PyStr(<<>>)),
                                PyInt(0))]

\* context_service.py:28-35: data.get raises AttributeError on a value that
\* is no dict
dict_to_session(data) ==
    IF data.t # "dict" THEN [exc |-> "AttributeError", session |-> NoSession]
    ELSE LET count == PyIntOf(DictGet(data, <<"tool_calls_count">>, PyInt(0)))
         IN  IF count.exc # None THEN [exc |-> count.exc, session |-> NoSession]
             ELSE [exc |-> None,
                   session |-> PySession(DictGet(data, <<"session_id">>, PyStr(<<>>)),
                                         DictGet(data, <<"messages">>, PyList(<<>>)),
                                         DictGet(data, <<"investigation_summary">>, PyStr(<<>>)),
                                         PyInt(count.n))]

\* What a call of the context service gives: as for the CRUD service, with
\* the session returned
ContextResult(r, ret, session, exc) ==
    [client |-> r.client, store |-> r.store, ret |-> ret, text |-> r.text, exc |-> exc,
     commands |-> r.commands, session |-> session]

\* context_service.py:52-63: get_context
get_context(client, st, sid, fault) ==
    LET r == CrudGet(client, st, ContextKey(sid), fault)
    IN  IF r.ret = "raised" THEN ContextResult(r, "raised", NoSession, r.exc)
        ELSE IF r.ret = "None" THEN ContextResult(r, "None", NoSession, None)
        ELSE LET data == JsonLoads(r.text)
                 made == dict_to_session(data.v)
                 e == IF data.exc # None THEN data.exc ELSE made.exc
             IN  IF e = None THEN ContextResult(r, "session", made.session, None)
                 ELSE IF Catches({"JSONDecodeError", "KeyError", "TypeError"}, e)
                      THEN ContextResult(r, "None", NoSession, None)
                      ELSE ContextResult(r, "raised", NoSession, e)

\* context_service.py:65-74: save_context
save_context(client, st, sid, state, ttl, fault) ==
    LET data == session_to_dict(state)
    IN  IF ~Serializable(data)
        THEN ContextResult(CrudResult(client, st, "False", <<>>, None, <<>>),
                           "False", NoSession, None)
        ELSE LET r == CrudSet(client, st, ContextKey(sid), JsonDumps(data), PyInt(ttl), fault)
             IN  ContextResult(r, r.ret, NoSession, r.exc)

\* context_service.py:76-78: delete_context
delete_context(client, st, sid, fault) ==
    LET r == CrudDelete(client, st, ContextKey(sid), fault)
    IN  ContextResult(r, r.ret, NoSession, r.exc)

\* The operation op was called and gave r
SvcStep(op, key, ttl_arg, saved, r, session, fault) ==
    /\ n_svc_ops < MaxSvcOps
    /\ n_svc_ops' = n_svc_ops + 1
    /\ redis_client' = r.client
    /\ store' = r.store
    /\ svc_op' = [op |-> op, key |-> key, ttl_arg |-> ttl_arg, saved |-> saved,
                  commands |-> r.commands, ret |-> r.ret, text |-> r.text,
                  session |-> session, exc |-> r.exc, fault |-> fault]
    /\ UNCHANGED <<redis_url, context_ttl_seconds, stock_vars, client_vars, registry_vars,
                   server_vars, concurrent_vars>>

PyMessage(role, content) ==
    PyDict(<< <<"role">>, <<"content">> >>, <<PyStr(<<role>>), PyStr(content)>>)

\* Sessions given to save_context: a fresh one, one with a transcript whose
\* text holds a quote and a backslash, one of another id, and one whose
\* transcript holds a value json.dumps cannot serialize
SavedSessions ==
    {PySession(PyStr(<<"s1">>), PyList(<<>>), PyStr(<<>>), PyInt(0)),
     PySession(PyStr(<<"s1">>),
               PyList(<<PyMessage("user", <<"h", "i">>),
                        PyMessage("assistant", <<"\"", "o", "\\">>)>>),
               PyStr(<<"\"", "o">>), PyInt(2)),
     PySession(PyStr(<<"s2">>), PyList(<<PyMessage("user", <<"h", "i">>)>>),
               PyStr(<<>>), PyInt(1)),
     PySession(PyStr(<<"s1">>), PyList(<<Py("object", <<>>, 0, <<>>, <<>>)>>),
               PyStr(<<>>), PyInt(0))}

\* {"tool_calls_count": v}
CounterObject(v) == <<Tok("{"), StrTok(<<"tool_calls_count">>), Tok(":"), v, Tok("}")>>

\* Texts another writer may have left under a key: text that is not JSON,
\* JSON that is not an object, and objects with and without a numeric counter
ForeignTexts ==
    {<<Tok("junk")>>, <<Tok("{")>>, <<Tok("{"), Tok("}"), Tok("}")>>,
     <<StrTok(<<"\"">>)>>,
     <<Tok("["), Tok("]")>>, <<Tok("null")>>, <<StrTok(<<"x">>)>>, <<NumTok("int", 1)>>,
     <<Tok("{"), Tok("}")>>,
     CounterObject(StrTok(<<"a", "b">>)), CounterObject(StrTok(<<"1", "2">>)),
     CounterObject(Tok("null")), CounterObject(NumTok("float", 25)),
     <<Tok("{"), StrTok(<<"tool_calls_count">>), Tok(":"), Tok("["), NumTok("int", 1),
       Tok("]"), Tok("}")>>,
     <<Tok("{"), StrTok(<<"session_id">>), Tok(":"), StrTok(<<"a">>), Tok(","),
       StrTok(<<"session_id">>), Tok(":"), StrTok(<<"b">>), Tok("}")>>}

\* Values of ttl_seconds given to set: not given, and ints
TtlArgs == {PyNone, PyInt(-1), PyInt(0), PyInt(60)}

CallConnect(fault) ==
    SvcStep("connect", <<>>, PyNone, NoSession,
            CrudConnect(redis_client, store, fault), NoSession, fault)
    /\ UNCHANGED context_service_instance

CallClose ==
    SvcStep("close", <<>>, PyNone, NoSession, CrudClose(redis_client, store), NoSession, None)
    /\ UNCHANGED context_service_instance

CallGet(key, fault) ==
    SvcStep("get", key, PyNone, NoSession, CrudGet(redis_client, store, key, fault), NoSession, fault)
    /\ UNCHANGED context_service_instance

CallSet(key, value, ttl, fault) ==
    SvcStep("set", key, ttl, NoSession,
            CrudSet(redis_client, store, key, value, ttl, fault), NoSession, fault)
    /\ UNCHANGED context_service_instance

CallDelete(key, fault) ==
    SvcStep("delete", key, PyNone, NoSession,
            CrudDelete(redis_client, store, key, fault), NoSession, fault)
    /\ UNCHANGED context_service_instance

CallExists(key, fault) ==
    SvcStep("exists", key, PyNone, NoSession,
            CrudExists(redis_client, store, key, fault), NoSession, fault)
    /\ UNCHANGED context_service_instance

GetContext(sid, fault) ==
    LET r == get_context(redis_client, store, sid, fault)
    IN  /\ SvcStep("get_context", ContextKey(sid), PyNone, NoSession, r, r.session, fault)
        /\ UNCHANGED context_service_instance

SaveContext(sid, state, fault) ==
    LET r == save_context(redis_client, store, sid, state, context_ttl_seconds, fault)
    IN  /\ SvcStep("save_context", ContextKey(sid), PyInt(context_ttl_seconds), state, r,
                   NoSession, fault)
        /\ UNCHANGED context_service_instance

DeleteContext(sid, fault) ==
    LET r == delete_context(redis_client, store, sid, fault)
    IN  /\ SvcStep("delete_context", ContextKey(sid), PyNone, NoSession, r, NoSession, fault)
        /\ UNCHANGED context_service_instance

\* redis.py:103-108: get_redis_crud_service; the service it makes has no client
GetRedisCrudService ==
    /\ SvcStep("get_redis_crud_service", <<>>, PyNone, NoSession,
               CrudResult(redis_client, store,
                          IF UrlBlank(redis_url) THEN "None" ELSE "service",
                          <<>>, None, <<>>),
               NoSession, None)
    /\ UNCHANGED context_service_instance

\* context_service.py:81-90: get_context_service
GetContextService ==
    /\ SvcStep("get_context_service", <<>>, PyNone, NoSession,
               CrudResult(redis_client, store,
                          IF UrlBlank(redis_url) THEN "None" ELSE "service",
                          <<>>, None, <<>>),
               NoSession, None)
    /\ UNCHANGED context_service_instance

\* context_service.py:97-114: get_context_service_async; a service made here
\* is connected before the context service is kept
GetContextServiceAsync(fault) ==
    IF UrlBlank(redis_url)
    THEN /\ SvcStep("get_context_service_async", <<>>, PyNone, NoSession,
                    CrudResult(redis_client, store, "None", <<>>, None, <<>>), NoSession, fault)
         /\ UNCHANGED context_service_instance
    ELSE IF context_service_instance
    THEN /\ SvcStep("get_context_service_async", <<>>, PyNone, NoSession,
                    CrudResult(redis_client, store, "service", <<>>, None, <<>>), NoSession, fault)
         /\ UNCHANGED context_service_instance
    ELSE LET r == CrudConnect(None, store, fault)
             caught == Catches({"RedisConnectionError", "RedisTimeoutError",
                                "ConnectionError", "TimeoutError"}, r.exc)
         IN  /\ SvcStep("get_context_service_async", <<>>, PyNone, NoSession,
                        IF r.exc = None
                        THEN CrudResult(r.client, store, "service", <<>>, None, r.commands)
                        ELSE IF caught
                        THEN CrudResult(r.client, store, "None", <<>>, None, r.commands)
                        ELSE r,
                        NoSession, fault)
             /\ context_service_instance' = (r.exc = None)

\* context_service.py:117-123: close_context_service
CloseContextService ==
    /\ SvcStep("close_context_service", <<>>, PyNone, NoSession,
               IF context_service_instance THEN CrudClose(redis_client, store)
               ELSE CrudResult(redis_client, store, "None", <<>>, None, <<>>),
               NoSession, None)
    /\ context_service_instance' = FALSE

\* Another writer leaves a text under a key of the data set
ForeignWrite(key, text) ==
    /\ n_svc_ops < MaxSvcOps
    /\ n_svc_ops' = n_svc_ops + 1
    /\ store' = [store EXCEPT ![key] = Entry(text, 0)]
    /\ svc_op' = [NoSvcOp EXCEPT !.op = "foreign_write", !.key = key]
    /\ UNCHANGED <<redis_url, context_ttl_seconds, redis_client, context_service_instance,
                   stock_vars, client_vars, registry_vars, server_vars, concurrent_vars>>

\* The server drops an entry whose expiry has passed
Expire(key) ==
    /\ store[key].present
    /\ store[key].ttl > 0
    /\ store' = [store EXCEPT ![key] = NoEntry]
    /\ UNCHANGED <<redis_url, context_ttl_seconds, redis_client, context_service_instance,
                   svc_op, n_svc_ops, stock_vars, client_vars, registry_vars, server_vars, concurrent_vars>>

NextStore ==
    \/ \E fault \in ClientFaults : CallConnect(fault)
    \/ CallClose
    \/ \E key \in {<<"k">>, ContextKey("s1")}, fault \in ClientFaults : CallGet(key, fault)
    \/ \E ttl \in TtlArgs, fault \in ClientFaults : CallSet(<<"k">>, <<StrTok(<<"v">>)>>, ttl, fault)
    \/ \E fault \in ClientFaults : CallDelete(<<"k">>, fault)
    \/ \E fault \in ClientFaults : CallExists(<<"k">>, fault)
    \/ \E sid \in SessionIds, fault \in ClientFaults : GetContext(sid, fault)
    \/ \E sid \in SessionIds, state \in SavedSessions, fault \in ClientFaults :
          SaveContext(sid, state, fault)
    \/ \E sid \in SessionIds, fault \in ClientFaults : DeleteContext(sid, fault)
    \/ GetRedisCrudService
    \/ GetContextService
    \/ \E fault \in ClientFaults : GetContextServiceAsync(fault)
    \/ CloseContextService
    \/ \E text \in ForeignTexts : ForeignWrite(ContextKey("s1"), text)
    \/ \E key \in StoreKeys : Expire(key)

\* The settings as the environment may give them
Urls == {NoneText, <<>>, <<" ">>, <<" ", "redis://h", " ">>}

TtlSettings == {DEFAULT_TTL, 0}

InitPersistenceAny ==
    /\ redis_url \in Urls
    /\ context_ttl_seconds \in TtlSettings
    /\ redis_client = None
    /\ context_service_instance = FALSE
    /\ store = [k \in StoreKeys |-> NoEntry]
    /\ svc_op = NoSvcOp
    /\ n_svc_ops = 0

InitAnySettings == InitServer /\ InitClient /\ InitRegistry /\ InitPersistenceAny /\ InitStock /\ InitConnections

SpecStore == InitAnySettings /\ [][NextStore]_vars

----------------------------------------------------------------------------
(* The inventory tools: check_stock of the orders server
   (mcp_servers/orders/server.py) and of the jewelryops_mysql server
   (mcp_servers/jewelryops_mysql/server.py) *)

StockServers == {"orders", "jewelryops_mysql"}

Skus == {"RING-102", "BRAC-301", "NECK-000"}

\* {"error": f"SKU not found: {sku}"}
SkuNotFound(sku) == PyDict(<< <<"error">> >>, <<PyStr(<<"SKU not found: ", sku>>)>>)

\* in_stock computed against the quantity on hand, reservations ignored
StockPayload_IgnoresReserved(sku, quantity, reserved, requested) ==
    PyDict(<< <<"sku">>, <<"available">>, <<"requested">>, <<"in_stock">> >>,
           <<PyStr(<<sku>>), PyInt(quantity - reserved), PyInt(requested),
             PyBool(quantity >= requested)>>)

\* orders/server.py:76-86, jewelryops_mysql/server.py:376-388: the payload
\* for a row that was found
StockPayload(sku, quantity, reserved, requested) ==
    PyDict(<< <<"sku">>, <<"available">>, <<"requested">>, <<"in_stock">> >>,
           <<PyStr(<<sku>>), PyInt(quantity - reserved), PyInt(requested),
             PyBool(quantity - reserved >= requested)>>)

\* item.get("reserved", 0)
ReservedOf(item) == IF "reserved" \in DOMAIN item THEN item.reserved ELSE 0

\* orders/server.py:70-87: the first item of the list with the SKU
RECURSIVE check_stock_orders(_, _, _)
check_stock_orders(inv, sku, quantity) ==
    IF inv = <<>> THEN SkuNotFound(sku)
    ELSE IF Head(inv).sku = sku
         THEN StockPayload(sku, Head(inv).quantity, ReservedOf(Head(inv)), quantity)
         ELSE check_stock_orders(Tail(inv), sku, quantity)

\* jewelryops_mysql/server.py:365-389: the row SELECT gives for the SKU, its
\* primary key
check_stock_mysql(inv, sku, quantity) ==
    IF \E k \in 1..Len(inv) : inv[k].sku = sku
    THEN LET row == inv[CHOOSE k \in 1..Len(inv) : inv[k].sku = sku]
         IN  StockPayload(sku, row.quantity, ReservedOf(row), quantity)
    ELSE SkuNotFound(sku)

\* The table of the mysql server has a reserved count in every row
\* (server.py:59, NOT NULL DEFAULT 0)
CheckStock(server, sku, quantity) ==
    /\ server = "jewelryops_mysql" => \A k \in 1..Len(inventory) : "reserved" \in DOMAIN inventory[k]
    /\ stock_op' = [server |-> server, sku |-> sku, requested |-> quantity,
                    payload |-> IF server = "orders"
                                THEN check_stock_orders(inventory, sku, quantity)
                                ELSE check_stock_mysql(inventory, sku, quantity)]
    /\ UNCHANGED <<inventory, persistence_vars, client_vars, registry_vars, server_vars, concurrent_vars>>

Quantities == 0..MaxStock

\* Quantities a caller asks for: the default 1 and others, -1 included
Requested == -1..MaxStock

NextStock ==
    \E server \in StockServers, sku \in Skus, quantity \in Requested :
        CheckStock(server, sku, quantity)

\* Inventories: the row of RING-102 with every quantity and reserved count,
\* alone or after another row, and as an item without a reserved count
Inventories ==
    {<<Row("RING-102", q, r)>> : q \in Quantities, r \in Quantities}
    \cup {<<Row("BRAC-301", 4, 2), Row("RING-102", q, r)>> : q \in Quantities, r \in Quantities}
    \cup {<<RowWithoutReserved("RING-102", q)>> : q \in Quantities}

InitStockAny ==
    /\ inventory \in Inventories
    /\ stock_op = NoStockOp

InitAnyInventory == InitServer /\ InitClient /\ InitRegistry /\ InitPersistence /\ InitStockAny /\ InitConnections

SpecStock == InitAnyInventory /\ [][NextStock]_vars

----------------------------------------------------------------------------
(* Turns on a server that has served turns before: SESSIONS holds what
   earlier turns left (agent.py:313-314, 400, 491-495). *)

\* The session map after one turn on `sid` that made one tool call and
\* committed `answer`
AfterOneTurn(sid, answer) ==
    [s \in {sid} |->
        [session_id |-> sid,
         messages |-> << Message("user", <<"h", "i">>), Message("assistant", answer) >>,
         investigation_summary |-> Take(answer, SUMMARY_LIMIT),
         tool_calls_count |-> 1]]

PriorSessions ==
    {NoSessions,
     AfterOneTurn("s1", <<"o", "k">>),
     AfterOneTurn("default", LongText \o <<"y">>)}

InitServerWithHistory ==
    /\ SESSIONS \in PriorSessions
    /\ sessions_at_accept = SESSIONS
    /\ turns = 1
    /\ pc = "accepted"
    /\ sent = <<>>
    /\ closed = FALSE
    /\ raw = NoRequest
    /\ escaped = None
    /\ session_id = None
    /\ user_message = <<>>
    /\ messages = <<>>
    /\ summary_messages = <<>>
    /\ tool_calls_made = <<>>
    /\ tool_names_in_order = <<>>
    /\ full_response = <<>>
    /\ final_response = <<>>
    /\ tc_pos = 1
    /\ n_chunks = 0
    /\ deltas_seen = <<>>
    /\ first_text = <<>>
    /\ final_deltas = <<>>
    /\ executor_calls = <<>>
    /\ count_at_start = 0
    /\ msgs_at_start = <<>>
    /\ summary_at_start = <<>>
    /\ faults = <<>>
    /\ second_requested = FALSE

InitWithHistory == InitServerWithHistory /\ InitClient /\ InitRegistry /\ InitServices /\ InitConnections

SpecHistory == InitWithHistory /\ [][Next]_vars

----------------------------------------------------------------------------
(* Two turns for one session id, run by two handlers of chat_ws on the one
   event loop of the process.  A handler runs alone from one await (or yield
   to the sending handler) to the next, so a step is the code between two
   such points: agent.py:313-314, then 316 (await); the first completion
   (await); agent.py:400 followed by the awaited execution of 410; the second
   completion (await); agent.py:491-495 followed by main.py:159-165 up to the
   awaited send of the done frame. *)

ConcurrentSession == "s1"

\* The entries of tool_calls_made a first completion can give a handler
ConcurrentCalls ==
    {<<>>,
     << [id |-> "call_c", name |-> "get_order", arguments |-> <<"{", "}">>] >>,
     << EmptyToolCall, [id |-> "call_c", name |-> "get_order", arguments |-> <<"{", "}">>] >>,
     << [id |-> "call_a", name |-> "extract_entities", arguments |-> <<"{", "q", "}">>],
        [id |-> "call_c", name |-> "get_order", arguments |-> <<"{", "}">>] >>}

\* The texts a second completion can give a handler: none, a short one, one
\* longer than the summary
ConcurrentAnswers == {<<>>, <<"o", "k">>, LongText \o <<"y">>}

other_vars == <<turns, pc, sent, closed, locals, history, client_vars, registry_vars,
                service_vars>>

\* agent.py:313-314: the session is fetched and the user message appended
HandlerStarts(c) ==
    /\ conns[c].pc = "start"
    /\ LET existing == get_session(SESSIONS, ConcurrentSession)
       IN  /\ SESSIONS' = [existing EXCEPT ![ConcurrentSession].messages =
                              Append(@, Message("user", conns[c].user_message))]
           /\ conns' = [conns EXCEPT
                 ![c].pc = "stream1",
                 ![c].count_at_start = existing[ConcurrentSession].tool_calls_count,
                 ![c].user_at = Len(existing[ConcurrentSession].messages) + 1]
    /\ UNCHANGED other_vars

\* agent.py:316-396: the prompt is built and the first completion read to its
\* end; without tool calls the turn goes to its end with no answer
HandlerFirstStreamEnds(c, made) ==
    /\ conns[c].pc = "stream1"
    /\ conns' = [conns EXCEPT
          ![c].tool_calls_made = made,
          ![c].pc = IF made = <<>> THEN "commit" ELSE "tools"]
    /\ UNCHANGED <<SESSIONS, other_vars>>

\* agent.py:399: an entry without a name is passed over
HandlerSkipsUnnamed(c) ==
    /\ conns[c].pc = "tools"
    /\ conns[c].tc_pos <= Len(conns[c].tool_calls_made)
    /\ ~IsNamed(conns[c].tool_calls_made[conns[c].tc_pos])
    /\ conns' = [conns EXCEPT ![c].tc_pos = @ + 1]
    /\ UNCHANGED <<SESSIONS, other_vars>>

\* agent.py:400-410: the counter is incremented and the execution awaited
HandlerCountsCall(c) ==
    /\ conns[c].pc = "tools"
    /\ conns[c].tc_pos <= Len(conns[c].tool_calls_made)
    /\ IsNamed(conns[c].tool_calls_made[conns[c].tc_pos])
    /\ SESSIONS' = CountToolCall(SESSIONS, ConcurrentSession)
    /\ conns' = [conns EXCEPT ![c].pc = "executing"]
    /\ UNCHANGED other_vars

\* agent.py:410-439: the execution returns or raises a caught exception; the
\* result goes to the handler's prompt
HandlerCallEnds(c) ==
    /\ conns[c].pc = "executing"
    /\ conns' = [conns EXCEPT ![c].pc = "tools", ![c].tc_pos = @ + 1]
    /\ UNCHANGED <<SESSIONS, other_vars>>

\* agent.py:441-485: the steps are yielded, the second completion requested
\* and read to its end; a completion that fails leaves no answer (agent.py:487)
HandlerSecondStreamEnds(c, answer) ==
    /\ conns[c].pc = "tools"
    /\ conns[c].tc_pos > Len(conns[c].tool_calls_made)
    /\ conns' = [conns EXCEPT ![c].final_response = answer, ![c].pc = "commit"]
    /\ UNCHANGED <<SESSIONS, other_vars>>

\* HandlerCommits with the done frame prepared and the answer never committed
HandlerCommits_Skips(c) ==
    /\ conns[c].pc = "commit"
    /\ conns' = [conns EXCEPT
          ![c].pc = "send_done",
          ![c].done_count = SESSIONS[ConcurrentSession].tool_calls_count]
    /\ UNCHANGED <<SESSIONS, other_vars>>

\* agent.py:491-495, main.py:159-165: the answer is committed, the generator
\* returns and the handler reads the counter for its done frame
HandlerCommits(c) ==
    /\ conns[c].pc = "commit"
    /\ LET committed == CommitAnswer(SESSIONS, ConcurrentSession, conns[c].final_response)
       IN  /\ SESSIONS' = committed
           /\ conns' = [conns EXCEPT
                 ![c].pc = "send_done",
                 ![c].assistant_at =
                     IF conns[c].final_response # <<>>
                     THEN Len(committed[ConcurrentSession].messages) ELSE 0,
                 ![c].done_count = committed[ConcurrentSession].tool_calls_count]
    /\ UNCHANGED other_vars

\* main.py:160-166: the done frame is sent
HandlerSendsDone(c) ==
    /\ conns[c].pc = "send_done"
    /\ conns' = [conns EXCEPT ![c].pc = "returned", ![c].done_sent = TRUE]
    /\ UNCHANGED <<SESSIONS, other_vars>>

NextConcurrent ==
    \E c \in Conns :
        \/ HandlerStarts(c)
        \/ \E made \in ConcurrentCalls : HandlerFirstStreamEnds(c, made)
        \/ HandlerSkipsUnnamed(c)
        \/ HandlerCountsCall(c)
        \/ HandlerCallEnds(c)
        \/ \E answer \in ConcurrentAnswers : HandlerSecondStreamEnds(c, answer)
        \/ HandlerCommits(c)
        \/ HandlerSendsDone(c)

SpecConcurrent == InitWithHistory /\ [][NextConcurrent]_vars

----------------------------------------------------------------------------
(* The composed system: one connection whose frames, sent by chat_ws
   (main.py:144-166), are read in order by the interpreter of the client
   (client/app.py:52-87).  The second completion's reply is plain text or
   begins with a JSON object. *)

ComposedContents ==
    {<<"{", Unrecognized, "}">>, <<"{", ToolsAndThoughts, "}", "H">>, <<"H">>}

\* app.py:53-87: ws.recv() gives the next frame the server sent
DeliverFrame ==
    /\ client_pc = "receiving"
    /\ Len(frames_in) < Len(sent)
    /\ LET frame == sent[Len(frames_in) + 1]
       IN  IF frame.type = "token"
           THEN /\ Becomes(OnToken(Current, frame.data))
                /\ frames_in' = Append(frames_in, frame.data)
                /\ UNCHANGED client_pc
           ELSE IF frame.type = "done"
           THEN /\ Becomes(OnDone(Current))
                /\ client_pc' = "done"
                /\ UNCHANGED frames_in
           ELSE /\ Becomes(OnError(Current))
                /\ client_pc' = "error"
                /\ UNCHANGED frames_in
    /\ UNCHANGED <<server_vars, registry_vars, service_vars, concurrent_vars>>

NextComposed ==
    \/ \E request \in RawPayloads : ReceiveRequest(request)
    \/ StartTurn
    \/ BuildPrompt
    \/ CreateFirst
    \/ \E e \in ExcClasses : FirstCompletionFails(e)
    \/ \E d \in TurnDeltas : n_chunks < MaxChunks /\ FirstStreamToolDelta(d)
    \/ FirstStreamEnds
    \/ SkipUnnamedCall
    \/ ToolArgumentsInvalid
    \/ ToolCallReturns
    \/ ToolCallRaisesCaught
    \/ ToolCallRaisesUncaught
    \/ EmitSteps
    \/ CreateSecond
    \/ \E e \in ExcClasses : SecondCompletionFails(e)
    \/ \E c \in ComposedContents : n_chunks < MaxChunks /\ SecondStreamContent(c)
    \/ SecondStreamEnds
    \/ DeliverFrame

SpecComposed == Init /\ [][NextComposed]_vars

----------------------------------------------------------------------------
(* What the claims speak of *)

HandlerEnded == pc \in {"returned", "crashed"}

\* The request was accepted and a turn was run for it
TurnRun == user_message # <<>>

IsTerminal(f) == f.type \in {"done", "error"}

FramesOfType(t) == {k \in 1..Len(sent) : sent[k].type = t}

DoneSent == sent # <<>> /\ sent[Len(sent)].type = "done"

FaultsAt(places) == {k \in 1..Len(faults) : faults[k].at \in places}

\* The session of the turn
Session == SESSIONS[session_id]


\* Entries of tool_calls_made the loop of the turn has passed
Processed == 1..(tc_pos - 1)

NamedProcessed == {k \in Processed : tool_calls_made[k].name # ""}

ToolMessagesOf(msgs) == {k \in 1..Len(msgs) : msgs[k].role = "tool"}

----------------------------------------------------------------------------
(* C1 *)

\* C1: every turn whose request was read ends with exactly one terminal frame
\* (done or error), sent after the token frames, and no frame follows it.
C1_OneTerminalFrameEndsTurn ==
    /\ \A k \in 1..Len(sent) : IsTerminal(sent[k]) => k = Len(sent)
    /\ (HandlerEnded /\ TurnRun) => (sent # <<>> /\ IsTerminal(sent[Len(sent)]))

----------------------------------------------------------------------------
(* C2 *)

\* C2: when a completion request fails with a timeout or a connection error,
\* the turn ends with a single error frame and no done frame; no assistant
\* entry is appended and the summary is not changed, while the user entry and
\* the counter increments of the turn remain.
C2_CompletionFailureEndsWithErrorFrame ==
    (/\ HandlerEnded
     /\ \E k \in FaultsAt({"first", "second"}) :
            faults[k].exc \in {"TimeoutError", "ConnectionError"})
    => /\ Cardinality(FramesOfType("error")) = 1
       /\ sent[Len(sent)].type = "error"
       /\ FramesOfType("done") = {}
       /\ Session.messages = Append(msgs_at_start, Message("user", user_message))
       /\ Session.investigation_summary = summary_at_start
       /\ Session.tool_calls_count = count_at_start + Cardinality(NamedProcessed)

----------------------------------------------------------------------------
(* C3 *)

\* C3: a failure of one tool call never aborts the turn: when the turn has
\* tool calls and no completion request fails, every call is processed, each
\* named call leaves a tool-result message, and the second completion is
\* requested.
C3_ToolFailureNeverAbortsTurn ==
    (/\ HandlerEnded
     /\ tool_calls_made # <<>>
     /\ FaultsAt({"build", "first", "second"}) = {})
    => /\ tc_pos = Len(tool_calls_made) + 1
       /\ Cardinality(ToolMessagesOf(messages)) = Cardinality(NamedProcessed)
       /\ second_requested

----------------------------------------------------------------------------
(* C4 *)

\* C4: when the first completion produces text and no tool call, the turn ends
\* with an assistant entry holding that text as the last entry of the
\* transcript, and the summary is its first 500 characters.
C4_TextOnlyAnswerCommitted ==
    (/\ HandlerEnded
     /\ faults = <<>>
     /\ deltas_seen = <<>>
     /\ first_text # <<>>)
    => /\ Session.messages # <<>>
       /\ Session.messages[Len(Session.messages)] = Message("assistant", first_text)
       /\ Session.investigation_summary = Take(first_text, SUMMARY_LIMIT)

----------------------------------------------------------------------------
(* C5 *)

DoneCount == sent[Len(sent)].tool_calls_count

\* C5 as stated: the count of the done frame is the count before the turn plus
\* the number of named calls executed (handed to the executor) in the turn.
C5_DoneCountsExecutedCalls ==
    (DoneSent /\ TurnRun) => DoneCount = count_at_start + Len(executor_calls)

----------------------------------------------------------------------------
(* C7 *)

Unnamed == {k \in 1..Len(tool_calls_made) : tool_calls_made[k].name = ""}

Named == {k \in 1..Len(tool_calls_made) : tool_calls_made[k].name # ""}

\* The tokens "<i>. <name>\n" of the numbered list
StepItems == {k \in 1..Len(sent) : sent[k].type = "token" /\ Len(sent[k].data) = 4}

LoopDone == pc \in {"create2", "stream2"} \/ (pc = "returned" /\ second_requested)

\* C7: an entry of tool_calls_made whose name is empty (a placeholder of a
\* skipped index included) is never handed to the executor, adds nothing to
\* the counter, leaves no tool-result message and is not in the numbered list:
\* the calls executed are named entries, the tool-result messages are as
\* many as the named entries processed, and once the loop is over the counter
\* has grown by the number of named entries, which is also the number of list
\* items, none of them with an empty name.
C7_UnnamedCallsAreDiscarded ==
    /\ \A k \in 1..Len(executor_calls) : executor_calls[k].pos \in Named
    /\ Cardinality(ToolMessagesOf(messages)) = Cardinality(NamedProcessed)
    /\ \A k \in StepItems : sent[k].data[3] # ""
    /\ LoopDone =>
          /\ Session.tool_calls_count = count_at_start + Cardinality(Named)
          /\ Cardinality(StepItems) = Cardinality(Named)

\* A turn that ended with done, whose list holds a placeholder for index 0
\* and a named call that was executed
C7_Witness ==
    /\ DoneSent /\ TurnRun
    /\ Unnamed # {} /\ Named # {}
    /\ executor_calls # <<>>
    /\ second_requested

----------------------------------------------------------------------------
(* C8 *)

OnlyWhitespace(text) == \A k \in 1..Len(text) : text[k] = " "

\* The request is not parseable, or holds no message, an empty one or
\* whitespace only
Malformed(request) ==
    \/ request.kind \in {"not_json", "non_object"}
    \/ request.kind = "object"
       /\ (request.message = NoneText \/ OnlyWhitespace(request.message))

\* C8: a malformed request yields exactly one error frame and no other frame,
\* the server closes the connection, and no session is created or changed.
C8_MalformedRequestGetsOneErrorFrame ==
    (HandlerEnded /\ Malformed(raw))
    => /\ Len(sent) = 1
       /\ sent[1].type = "error"
       /\ closed
       /\ SESSIONS = sessions_at_accept

----------------------------------------------------------------------------
(* C9 *)

\* C9: whenever an exception leaves the turn, the server sends one error frame
\* and then closes the connection itself.
C9_EscapedErrorGetsErrorFrameAndClose ==
    (HandlerEnded /\ escaped # None)
    => /\ Cardinality(FramesOfType("error")) = 1
       /\ sent[Len(sent)].type = "error"
       /\ closed

----------------------------------------------------------------------------
(* C10 *)

ThoughtsAt == CHOOSE k \in 1..Len(sent) : sent[k].data = <<"\nThoughts:\n">>

\* The text of the token frames between "Thoughts:" and the terminal frame
StreamedAfterThoughts ==
    [j \in 1..(Len(sent) - ThoughtsAt - 1) |-> sent[ThoughtsAt + j].data[1]]

SecondEndedNormally ==
    HandlerEnded /\ second_requested /\ FaultsAt({"second"}) = {}

\* C10: when tool calls were produced and the second completion ends normally
\* with non-empty text, the tokens sent after "Thoughts:", one per character,
\* spell the concatenation of its content deltas in arrival order; that text
\* is the last entry of the transcript, an assistant entry; and the summary
\* is its first 500 characters.
C10_SecondCompletionIsTheAnswer ==
    LET text == Concat(final_deltas)
        transcript == Session.messages
        summary == Session.investigation_summary
    IN  (SecondEndedNormally /\ text # <<>>)
        => /\ DoneSent
           /\ \E k \in 1..Len(sent) : sent[k].data = <<"\nThoughts:\n">>
           /\ \A j \in (ThoughtsAt + 1)..(Len(sent) - 1) :
                 sent[j].type = "token" /\ Len(sent[j].data) = 1
           /\ StreamedAfterThoughts = text
           /\ transcript[Len(transcript)] = Message("assistant", text)
           /\ Len(summary) = Min(SUMMARY_LIMIT, Len(text))
           /\ \A k \in 1..Len(summary) : summary[k] = text[k]

\* Two different content deltas, together longer than the summary limit
C10_Witness ==
    /\ SecondEndedNormally
    /\ Len(final_deltas) = 2
    /\ final_deltas[1] # final_deltas[2]
    /\ Len(Concat(final_deltas)) > SUMMARY_LIMIT
    /\ tool_calls_made # <<>>

----------------------------------------------------------------------------
(* C11 *)

\* agent.py:313-314 were executed in this turn
TurnStarted == pc \notin {"accepted", "start"} /\ TurnRun

\* The turn appended an assistant entry to the transcript
Committed == TurnStarted /\ Len(Session.messages) > Len(msgs_at_start) + 1

\* The characters sent after the "Thoughts:" token, as text
SentText ==
    LET after == SelectSeq(SubSeq(sent, ThoughtsAt + 1, Len(sent)),
                           LAMBDA f : f.type = "token")
    IN  [k \in 1..Len(after) |-> after[k].data[1]]

ThoughtsSent == \E k \in 1..Len(sent) : sent[k].data = <<"\nThoughts:\n">>

\* C11: when a send of a token fails because the client closed the
\* connection (before any token, between tokens or inside a delta, the last
\* token included), the turn has appended no assistant entry and the summary
\* is what it was before the turn; and whenever a turn has appended an
\* assistant entry, every character of the answer had been sent before.
C11_NoCommitBeforeLastToken ==
    /\ pc = "disconnected_token"
          => /\ Session.messages = Append(msgs_at_start, Message("user", user_message))
             /\ Session.investigation_summary = summary_at_start
    /\ Committed
          => /\ ThoughtsSent
             /\ SentText = Concat(final_deltas)
             /\ Session.messages[Len(Session.messages)] =
                   Message("assistant", Concat(final_deltas))

\* The client closed inside the last delta: the text but one character was
\* sent, in a session that already had a transcript
C11_Witness ==
    /\ pc = "disconnected_token"
    /\ final_deltas # <<>>
    /\ ThoughtsSent
    /\ Len(SentText) = Len(Concat(final_deltas)) - 1
    /\ Len(SentText) >= 1
    /\ msgs_at_start # <<>>

----------------------------------------------------------------------------
(* C12 *)

\* The reply so far: the data of the token frames, concatenated
ReplyText == Concat(frames_in)

StreamEnded == client_pc \in {"done", "error"}

\* After its leading blanks the text does not start with "{"
Plain(text) == LStrip(text) = <<>> \/ LStrip(text)[1] # "{"

\* C12: for a reply that, leading blanks aside, does not start with "{", what
\* the interpreter has emitted is the concatenation of the data of the token
\* frames, blanks included, however the reply is cut into frames: at every
\* moment once a character other than a blank has arrived, and for any such
\* reply when the done frame has been read.
C12_PlainReplyEmittedUnchanged ==
    Plain(ReplyText)
    => /\ LStrip(ReplyText) # <<>> => emitted = ReplyText
       /\ client_pc = "done" => emitted = ReplyText

\* A reply with a leading blank, ended by done, one of whose frames carries
\* more than one character
C12_Witness ==
    /\ client_pc = "done"
    /\ Len(frames_in) >= 3
    /\ frames_in[1] = <<" ">>
    /\ LStrip(ReplyText) # <<>>
    /\ Plain(ReplyText)
    /\ \E k \in 1..Len(frames_in) : Len(frames_in[k]) > 1
    /\ emitted = ReplyText

----------------------------------------------------------------------------
(* C13 *)

\* The place of the first "}" of the text, 0 when there is none
FirstBrace(text) ==
    LET at == {k \in 1..Len(text) : text[k] = "}"}
    IN  IF at = {} THEN 0 ELSE CHOOSE k \in at : \A j \in at : k <= j

\* The text of the leading object of a reply: from the "{" that follows the
\* leading blanks to the first "}" (member texts hold no brace)
LeadingObjectText(text) == SubSeq(LStrip(text), 1, FirstBrace(LStrip(text)))

\* The reply is a JSON object followed by text
ObjectReply(text) ==
    /\ LStrip(text) # <<>>
    /\ LStrip(text)[1] = "{"
    /\ FirstBrace(LStrip(text)) > 0
    /\ ClientJsonLoads(LeadingObjectText(text)).ok

LeadingObject(text) == ClientJsonLoads(LeadingObjectText(text)).obj

TrailingText(text) ==
    SubSeq(LStrip(text), FirstBrace(LStrip(text)) + 1, Len(LStrip(text)))

\* C13: for a reply made of a leading object with the tool list a, b and the
\* rationale " t ", followed by trailing text, and ended by done, the
\* interpreter emits the numbered Investigation Steps, the Thoughts section
\* and then the trailing text unchanged, and nothing of the object's text.
C13_ObjectReplyIsFormatted ==
    (/\ client_pc = "done"
     /\ ObjectReply(ReplyText)
     /\ LeadingObject(ReplyText) = MemberObject(ToolsAndThoughts)
     /\ TrailingText(ReplyText) # <<>>)
    => emitted = <<"Investigation Steps:\n", "1", ". ", "a", "\n", "2", ". ", "b", "\n",
                   "\nThoughts:\n", "t", "\n\n">> \o TrailingText(ReplyText)

----------------------------------------------------------------------------
(* C14 *)

\* The text cut into frames of one character each
OnePerFrame(text) == [k \in 1..Len(text) |-> <<text[k]>>]

\* C14: the text emitted for a reply ended by done is the text the interpreter
\* emits for the same reply sent one character per frame; so two ways of
\* cutting the same reply into frames give the same output.
C14_FrameGranularityInsignificant ==
    client_pc = "done"
    => emitted = OnDone(RunTokens(OnePerFrame(ReplyText))).emitted

----------------------------------------------------------------------------
(* C15 *)

\* C15: when the stream ends, by done or by error, while the interpreter is
\* still in the prefix with a buffer that starts with "{", the buffered text
\* has been emitted as it is.
C15_UnterminatedPrefixFlushed ==
    (/\ StreamEnded
     /\ in_prefix
     /\ LStrip(prefix_buffer) # <<>>
     /\ LStrip(prefix_buffer)[1] = "{")
    => emitted = prefix_buffer

----------------------------------------------------------------------------
(* C16 *)

Recognized(obj) == FirstTruthy(obj, ToolKeys) # <<>> \/ FirstTruthy(obj, ThoughtKeys) # <<>>

\* C16: once the interpreter has parsed a leading object that holds no
\* recognized key, nothing is emitted for the object, then or at stream end:
\* at every moment, and after done or error, the emitted text is exactly the
\* text of the reply that follows the object.
C16_UnrecognizedObjectDropped ==
    (parsed_obj # NotParsed /\ ~Recognized(parsed_obj[1].obj))
    => /\ ~in_prefix
       /\ LStrip(ReplyText) = parsed_obj[1].text \o emitted

\* A reply ended by done whose object "x":1 was parsed and dropped, with text
\* after it
C16_Witness ==
    /\ client_pc = "done"
    /\ parsed_obj # NotParsed
    /\ parsed_obj[1].obj = MemberObject(Unrecognized)
    /\ emitted # <<>>
    /\ Len(frames_in) >= 4

----------------------------------------------------------------------------
(* C17 *)

\* The step is a call of execute_tool_async
ExecStep == n_ops' = n_ops + 1 /\ last_op'.op = "execute"

\* C17: a call of execute for the name of an in-process function
\* (extract_entities, summarize_state, check_requires_confirmation) calls that
\* function and contacts no remote source, whatever the sources list.
C17_InProcessToolsShadowRemote ==
    [][(ExecStep /\ last_op'.name \in {"extract_entities", "summarize_state",
                                       "check_requires_confirmation"})
       => /\ last_op'.in_process
          /\ contacts' = <<>>
          /\ last_op'.invoked = <<>>]_vars

\* extract_entities was executed in process while the first source, which
\* lists a tool of that name, was up
C17_Witness ==
    /\ last_op.op = "execute"
    /\ last_op.name = "extract_entities"
    /\ last_op.in_process
    /\ last_op.kind = "return"
    /\ contacts = <<>>
    /\ sources["jewelryops_mysql"] = "up"
    /\ "extract_entities" \in Advertised("jewelryops_mysql")

----------------------------------------------------------------------------
(* C18 *)

ProbeOrder == <<"jewelryops_mysql", "notion_mock", "gmail_mock">>

PlaceOf(s) == CHOOSE k \in 1..Len(ProbeOrder) : ProbeOrder[k] = s

\* Places of the sources that are reachable and list the name
ListingPlaces(name) ==
    {k \in 1..Len(ProbeOrder) :
        sources[ProbeOrder[k]] = "up" /\ name \in Advertised(ProbeOrder[k])}

FirstPlace(places) == CHOOSE k \in places : \A j \in places : k <= j

\* C18: a call of execute for a name that is not in the in-process map, when
\* the sources fail with transport errors only: the sources are contacted in
\* the order jewelryops_mysql, notion_mock, gmail_mock; a source that is down
\* is passed; the tool is invoked first on the first source that is up and
\* lists the name, and when that call returns no later source is contacted;
\* when no source is up and lists the name the call returns
\* "Error: Tool <name> not found" and raises nothing.
C18_RemoteSourcesProbedInOrder ==
    [][(/\ ExecStep
        /\ ~last_op'.in_process
        /\ \A s \in DOMAIN sources : sources[s] # "broken")
       => LET name == last_op'.name
              places == ListingPlaces(name)
          IN  /\ \A i, j \in 1..Len(contacts') :
                    i < j => PlaceOf(contacts'[i]) < PlaceOf(contacts'[j])
              /\ places = {}
                    => /\ last_op'.kind = "return"
                       /\ last_op'.value = <<"Error: Tool ", name, " not found">>
                       /\ last_op'.invoked = <<>>
                       /\ \A k \in 1..Len(ProbeOrder) :
                             sources[ProbeOrder[k]] # "unconfigured"
                             => \E i \in 1..Len(contacts') : contacts'[i] = ProbeOrder[k]
              /\ places # {}
                    => LET first == FirstPlace(places)
                       IN  /\ last_op'.invoked # <<>>
                           /\ last_op'.invoked[1] = ProbeOrder[first]
                           /\ \A k \in 1..first :
                                 sources[ProbeOrder[k]] # "unconfigured"
                                 => \E i \in 1..Len(contacts') : contacts'[i] = ProbeOrder[k]
                           /\ last_op'.replies[ProbeOrder[first]].kind = "result"
                                 => /\ last_op'.kind = "return"
                                    /\ last_op'.invoked = <<ProbeOrder[first]>>
                                    /\ contacts'[Len(contacts')] = ProbeOrder[first]]_vars

\* get_order was looked up with the first source down: the first source was
\* contacted and passed, the tool invoked on the second
C18_Witness ==
    /\ last_op.op = "execute"
    /\ last_op.name = "get_order"
    /\ contacts = <<"jewelryops_mysql", "notion_mock">>
    /\ last_op.invoked = <<"notion_mock">>
    /\ last_op.kind = "return"
    /\ last_op.value = <<"r", "1">>

----------------------------------------------------------------------------
(* C19 *)

\* The call of a remote tool returned: the content of the result
RemoteReturn == ExecStep /\ last_op'.invoked # <<>> /\ last_op'.kind = "return"
                /\ last_op'.replies[last_op'.invoked[Len(last_op'.invoked)]].kind = "result"

ReturnedContent == last_op'.replies[last_op'.invoked[Len(last_op'.invoked)]].content

FirstItemText(content) == IF content[1] = <<None>> THEN <<>> ELSE content[1]

\* C19 as stated: execute returns the text of the first content item of the
\* remote result, and the empty string when the result has no content.
C19_EmptyStringWithoutContent ==
    [][RemoteReturn
       => /\ ReturnedContent # <<>> => last_op'.value = FirstItemText(ReturnedContent)
          /\ ReturnedContent = <<>> => last_op'.value = <<>>]_vars

\* C19, amended: execute returns the text of the first content item of the
\* remote result (the empty string when that text is None or empty), and the
\* JSON serialisation of the whole result when the result has no content.
C19_FirstItemTextOrResultDump ==
    [][RemoteReturn
       => /\ ReturnedContent # <<>> => last_op'.value = FirstItemText(ReturnedContent)
          /\ ReturnedContent = <<>> => last_op'.value = <<"json.dumps(result)">>]_vars

\* A remote call returned a result without content: what execute returned
\* is not the empty string
C19_Witness ==
    /\ last_op.op = "execute"
    /\ last_op.kind = "return"
    /\ last_op.invoked = <<"gmail_mock">>
    /\ last_op.replies["gmail_mock"] = [kind |-> "result", content |-> <<>>]
    /\ last_op.value # <<>>

----------------------------------------------------------------------------
(* C20 *)

GetStep == n_ops' = n_ops + 1 /\ last_op'.op = "get_tools"

\* C20: once the schemas are cached a call of get_mcp_tools_async returns the
\* cached list and contacts no source; and a source that failed during the
\* last load is contacted again by the next call, its tools being in the list
\* returned when it is up by then.
C20_FailedSourceRetried ==
    [][GetStep
       => /\ mcp_tools_cache.loaded
                => /\ contacts' = <<>>
                   /\ last_op'.value = mcp_tools_cache.tools
          /\ \A s \in load_failed :
                /\ \E i \in 1..Len(contacts') : contacts'[i] = s
                /\ sources[s] = "up"
                      => \A t \in Advertised(s) :
                            \E i \in 1..Len(last_op'.value) : last_op'.value[i] = t]_vars

----------------------------------------------------------------------------
(* C6 *)

\* The fragments of the deltas that carry index i, concatenated in arrival order
RECURSIVE FragmentsOf(_, _)
FragmentsOf(deltas, i) ==
    IF deltas = <<>> THEN <<>>
    ELSE (IF Head(deltas).index = i THEN Head(deltas).arguments ELSE <<>>)
         \o FragmentsOf(Tail(deltas), i)

\* The last non-empty value of a field among the deltas that carry index i
RECURSIVE LastSet(_, _, _)
LastSet(deltas, i, field) ==
    IF deltas = <<>> THEN ""
    ELSE LET d == deltas[Len(deltas)]
         IN  IF d.index = i /\ d[field] # "" THEN d[field]
             ELSE LastSet(SubSeq(deltas, 1, Len(deltas) - 1), i, field)

\* C6: whatever tool-call deltas the first completion has delivered so far,
\* in whatever order of indices, the entry of each index holds the
\* concatenation, in arrival order, of the argument fragments of the deltas
\* carrying that index, and its id and name are the last ones those deltas
\* set: a delta changes nothing of another index.  An index no delta carried
\* has no entry or an empty placeholder.
C6_ArgumentsAssembledPerIndex ==
    \A i \in DeltaIndexes :
        IF i < Len(tool_calls_made)
        THEN /\ tool_calls_made[i + 1].arguments = FragmentsOf(deltas_seen, i)
             /\ tool_calls_made[i + 1].id = LastSet(deltas_seen, i, "id")
             /\ tool_calls_made[i + 1].name = LastSet(deltas_seen, i, "name")
        ELSE FragmentsOf(deltas_seen, i) = <<>>

\* Index 1 arrives before index 0 and its two fragments are interleaved with
\* a fragment of index 0
C6_Witness ==
    /\ Len(deltas_seen) = 3
    /\ deltas_seen[1].index = 1 /\ deltas_seen[1].arguments = <<"{">>
    /\ deltas_seen[2].index = 0 /\ deltas_seen[2].arguments = <<"}">>
    /\ deltas_seen[3].index = 1 /\ deltas_seen[3].arguments = <<"}">>
    /\ tool_calls_made[2].arguments = <<"{", "}">>
    /\ tool_calls_made[1].arguments = <<"}">>

----------------------------------------------------------------------------
(* C21 *)

\* The step is a call of the persistence operation op
SvcCall(op) == n_svc_ops' = n_svc_ops + 1 /\ svc_op'.op = op

\* The text the last operation wrote to the store
WrittenText == svc_op.commands[1].value

\* C21: a session saved with save_context and then loaded with get_context
\* under the same session id, the store returning the text that was written,
\* is a session whose id, messages, summary and counter equal those of the
\* saved session.
C21_SaveThenLoadRoundTrips ==
    [][(/\ svc_op.op = "save_context"
        /\ svc_op.ret = "True"
        /\ SvcCall("get_context")
        /\ svc_op'.key = svc_op.key
        /\ svc_op'.text = WrittenText)
       => /\ svc_op'.ret = "session"
          /\ svc_op'.session.session_id = svc_op.saved.session_id
          /\ svc_op'.session.messages = svc_op.saved.messages
          /\ svc_op'.session.investigation_summary = svc_op.saved.investigation_summary
          /\ svc_op'.session.tool_calls_count = svc_op.saved.tool_calls_count]_vars

\* A session with two messages, a quote and a backslash in its text and a
\* counter of 2 was loaded from the text save_context wrote
C21_Witness ==
    /\ svc_op.op = "get_context"
    /\ svc_op.ret = "session"
    /\ Len(svc_op.session.messages.items) = 2
    /\ svc_op.session.tool_calls_count = PyInt(2)
    /\ svc_op.session.messages.items[2].items[2].s = <<"\"", "o", "\\">>
    /\ store[svc_op.key].ttl = DEFAULT_TTL
    /\ svc_op.text = store[svc_op.key].value

----------------------------------------------------------------------------
(* C22 *)

\* The stored text can be turned into a session: it is JSON, the JSON is an
\* object, and its counter, when it has one, is a number or a string of
\* digits
HasNumericCounter(v) ==
    \A k \in 1..Len(v.keys) :
        v.keys[k] = <<"tool_calls_count">>
        => \/ v.items[k].t \in {"int", "float", "bool"}
           \/ /\ v.items[k].t = "str"
              /\ v.items[k].s # <<>>
              /\ \A j \in 1..Len(v.items[k].s) : IsDigit(v.items[k].s[j])

Convertible(text) ==
    /\ JsonLoads(text).exc = None
    /\ JsonLoads(text).v.t = "dict"
    /\ HasNumericCounter(JsonLoads(text).v)

\* C22: get_context returns None and raises nothing whenever the key is
\* missing or the stored text cannot be turned into a session: text that is
\* not JSON, JSON that is not an object, an object whose counter is not
\* numeric.
C22_UnusableTextGivesNone ==
    [][(/\ SvcCall("get_context")
        /\ redis_client # None
        /\ svc_op'.fault = None
        /\ \/ ~store[svc_op'.key].present
           \/ ~Convertible(store[svc_op'.key].value))
       => /\ svc_op'.ret = "None"
          /\ svc_op'.exc = None]_vars

----------------------------------------------------------------------------
(* C23 *)

\* C23: save_context, get_context and delete_context of a session id issue
\* their command on the key "context:<session_id>", and every write of
\* save_context carries the configured TTL as the expiry of the entry, so that
\* the saved session expires on its own.
C23_SavedSessionExpires ==
    [][(/\ \/ SvcCall("save_context")
           \/ SvcCall("get_context")
           \/ SvcCall("delete_context")
        /\ svc_op'.commands # <<>>)
       => /\ Len(svc_op'.commands) = 1
          /\ \E sid \in SessionIds :
                /\ svc_op'.key = <<"context:", sid>>
                /\ svc_op'.commands[1].key = <<"context:", sid>>
          /\ svc_op'.op = "save_context"
                => /\ svc_op'.commands[1].cmd = "setex"
                   /\ svc_op'.commands[1].ttl = context_ttl_seconds
                   /\ svc_op'.commands[1].value = JsonDumps(session_to_dict(svc_op'.saved))
                   /\ svc_op'.ret = "True"
                         => /\ store'[svc_op'.key].present
                            /\ store'[svc_op'.key].ttl > 0]_vars

----------------------------------------------------------------------------
(* C24 *)

TransportFaults == {"RedisConnectionError", "RedisTimeoutError"}

----------------------------------------------------------------------------
(* C25 *)

BlankUrls == {NoneText, <<>>, <<" ">>}

\* C25: get_redis_crud_service, get_context_service and
\* get_context_service_async return None, raising nothing and connecting
\* nothing, when redis_url is unset or blank; and on a service with no client
\* get returns None and set, delete and exists return False, with no command
\* issued, nothing raised and the data set untouched.
C25_UnconfiguredOrUnconnectedIsQuiet ==
    [][/\ (/\ \/ SvcCall("get_redis_crud_service")
              \/ SvcCall("get_context_service")
              \/ SvcCall("get_context_service_async")
           /\ redis_url \in BlankUrls)
          => /\ svc_op'.ret = "None"
             /\ svc_op'.exc = None
             /\ svc_op'.commands = <<>>
             /\ context_service_instance' = context_service_instance
       /\ (/\ \/ SvcCall("get")
              \/ SvcCall("set")
              \/ SvcCall("delete")
              \/ SvcCall("exists")
           /\ redis_client = None)
          => /\ svc_op'.ret = (IF svc_op'.op = "get" THEN "None" ELSE "False")
             /\ svc_op'.exc = None
             /\ svc_op'.commands = <<>>
             /\ store' = store
             /\ redis_client' = None]_vars

\* get was called on a service with no client for a key that is in the data
\* set: no command was issued and get gave None
C25_Witness ==
    /\ svc_op.op = "get"
    /\ svc_op.ret = "None"
    /\ svc_op.commands = <<>>
    /\ redis_client = None
    /\ store[svc_op.key].present

----------------------------------------------------------------------------
(* C26 *)

Member(payload, key) == DictGet(payload, <<key>>, PyNone)

\* The row of the inventory with the SKU asked for
RowsOf(sku) == {k \in 1..Len(inventory) : inventory[k].sku = sku /\ "reserved" \in DOMAIN inventory[k]}

\* C26: for every inventory row and every requested quantity check_stock
\* reports available = quantity - reserved and in_stock = (available >=
\* requested); for a SKU that is not in the inventory it returns an error
\* payload instead.
C26_CheckStockArithmetic ==
    stock_op.server # "none"
    => /\ \A k \in RowsOf(stock_op.sku) :
            /\ Member(stock_op.payload, "available")
                  = PyInt(inventory[k].quantity - inventory[k].reserved)
            /\ Member(stock_op.payload, "in_stock")
                  = PyBool(inventory[k].quantity - inventory[k].reserved >= stock_op.requested)
            /\ Member(stock_op.payload, "requested") = PyInt(stock_op.requested)
            /\ Member(stock_op.payload, "error") = PyNone
       /\ (\A k \in 1..Len(inventory) : inventory[k].sku # stock_op.sku)
            => /\ stock_op.payload.keys = << <<"error">> >>
               /\ Member(stock_op.payload, "error")
                     = PyStr(<<"SKU not found: ", stock_op.sku>>)

\* The example of the spec: quantity 2, reserved 2, requested 3 gives
\* available 0 and in_stock false
C26_Witness ==
    /\ inventory[Len(inventory)] = Row("RING-102", 2, 2)
    /\ stock_op.sku = "RING-102"
    /\ stock_op.requested = 3
    /\ Member(stock_op.payload, "available") = PyInt(0)
    /\ Member(stock_op.payload, "in_stock") = PyBool(FALSE)

----------------------------------------------------------------------------
(* C27 *)

\* The place in the stream of the first delta for the entry at pos
FirstSeenAt(pos) ==
    CHOOSE k \in 1..Len(deltas_seen) :
        /\ deltas_seen[k].index = pos - 1
        /\ \A j \in 1..(k - 1) : deltas_seen[j].index # pos - 1

\* The named entries, by increasing position and by first delta
Sorted(set, rank(_)) ==
    CHOOSE order \in [1..Cardinality(set) -> set] :
        \A i, j \in 1..Cardinality(set) : i < j => rank(order[i]) < rank(order[j])

ByIndex == Sorted(Named, LAMBDA a : a)

ByFirstSeen == Sorted(Named, LAMBDA a : FirstSeenAt(a))

NamesOf(order) == [k \in 1..Len(order) |-> tool_calls_made[order[k]].name]

\* The names of the numbered list, in the order sent
StepNames ==
    LET items == SelectSeq(sent, LAMBDA f : f.type = "token" /\ Len(f.data) = 4)
    IN  [k \in 1..Len(items) |-> items[k].data[3]]

\* Every call handed to the executor but the last has been passed by the
\* loop and has left its tool-result message
OneAtATime ==
    \A k \in 1..(Len(executor_calls) - 1) :
        /\ executor_calls[k].pos < tc_pos
        /\ \E m \in ToolMessagesOf(messages) :
              messages[m].tool_call_id = tool_calls_made[executor_calls[k].pos].id

\* C27 as stated: the named calls of a turn are executed one at a time, in
\* the order in which their deltas first introduced them, and the numbered
\* list names them in that order.
C27_CallsInFirstSeenOrder ==
    /\ OneAtATime
    /\ \A i, j \in 1..Len(executor_calls) :
          i < j => FirstSeenAt(executor_calls[i].pos) < FirstSeenAt(executor_calls[j].pos)
    /\ LoopDone => StepNames = NamesOf(ByFirstSeen)

\* C27, amended: the named calls of a turn are executed one at a time, in
\* increasing order of their index in the stream (the order of the assembled
\* list), and the numbered list names the named calls in that order.
C27_CallsInIndexOrder ==
    /\ OneAtATime
    /\ \A i, j \in 1..Len(executor_calls) :
          i < j => executor_calls[i].pos < executor_calls[j].pos
    /\ LoopDone => StepNames = NamesOf(ByIndex)

\* Two calls were executed, the one of index 1 introduced before the one of
\* index 0, their names differ and the list has been sent
C27_Witness ==
    /\ LoopDone
    /\ Len(executor_calls) = 2
    /\ FirstSeenAt(2) < FirstSeenAt(1)
    /\ tool_calls_made[1].name # tool_calls_made[2].name
    /\ Len(StepNames) = 2

----------------------------------------------------------------------------
(* C28 *)

\* Argument texts that are valid JSON
ValidArgumentTexts == {<<"{", "}">>, <<"{", "q", "}">>}

\* The loop is at a named entry
AtNamedCall ==
    /\ pc = "tools"
    /\ tc_pos <= Len(tool_calls_made)
    /\ tool_calls_made[tc_pos].name # ""

\* C28: a named call whose argument text is not valid JSON is not handed to
\* the executor; an error result carrying its call id is recorded, the counter
\* is incremented and the loop goes on to the next entry.  A named call with
\* empty argument text is handed to the executor with an empty argument map.
C28_InvalidArgumentsNotExecuted ==
    [][/\ (/\ AtNamedCall
           /\ tool_calls_made[tc_pos].arguments # <<>>
           /\ tool_calls_made[tc_pos].arguments \notin ValidArgumentTexts)
          => /\ executor_calls' = executor_calls
             /\ Len(messages') = Len(messages) + 1
             /\ messages'[Len(messages')].role = "tool"
             /\ messages'[Len(messages')].tool_call_id = tool_calls_made[tc_pos].id
             /\ messages'[Len(messages')].content[1] = "Error: invalid arguments - "
             /\ SESSIONS'[session_id].tool_calls_count
                   = SESSIONS[session_id].tool_calls_count + 1
             /\ pc' = "tools"
             /\ tc_pos' = tc_pos + 1
       /\ (AtNamedCall /\ tool_calls_made[tc_pos].arguments = <<>>)
          => /\ Len(executor_calls') = Len(executor_calls) + 1
             /\ executor_calls'[Len(executor_calls')]
                   = [pos |-> tc_pos, name |-> tool_calls_made[tc_pos].name,
                      arguments |-> {}]]_vars

\* A call with broken argument text left its error result and the call after
\* it was executed
C28_Witness ==
    /\ pc = "tools"
    /\ tc_pos = 3
    /\ tool_calls_made[1].arguments \notin ValidArgumentTexts \cup {<<>>}
    /\ \E m \in ToolMessagesOf(messages) :
          /\ messages[m].tool_call_id = tool_calls_made[1].id
          /\ messages[m].content[1] = "Error: invalid arguments - "
    /\ Len(executor_calls) = 1
    /\ executor_calls[1].pos = 2

----------------------------------------------------------------------------
(* C29 *)

NoNamedCall == tool_calls_made # <<>> /\ \A k \in 1..Len(tool_calls_made) : tool_calls_made[k].name = ""

TokenFrames == SelectSeq(sent, LAMBDA f : f.type = "token")

\* The first completion stream was read to its end
FirstStreamConsumed ==
    \/ pc \in {"tools", "create2", "stream2"}
    \/ HandlerEnded /\ TurnRun /\ FaultsAt({"build", "first"}) = {}

\* C29: when the first completion gave tool-call deltas and no call has a
\* name, the turn sends "(no tools were called for this query)" and no
\* numbered list, executes no tool, leaves the counter as it was, adds no
\* assistant tool-call record to the prompt, and the second completion is
\* requested and its text streamed.
C29_NoNamedCallStillSummarises ==
    (NoNamedCall /\ FirstStreamConsumed)
    => /\ executor_calls = <<>>
       /\ Session.tool_calls_count = count_at_start
       /\ \A k \in 1..Len(messages) :
             messages[k].role # "tool" /\ messages[k].tool_calls = <<>>
       /\ pc # "tools" =>
             /\ TokenFrames # <<>>
             /\ TokenFrames[1] = TokenFrame(<<"\nInvestigation Steps:\n",
                                              "(no tools were called for this query)\n">>)
             /\ StepItems = {}
       /\ pc = "stream2" => second_requested
       /\ HandlerEnded => second_requested \/ FaultsAt({"second"}) # {}
       /\ (pc = "stream2" \/ SecondEndedNormally) =>
             /\ TokenFrames[2] = TokenFrame(<<"\nThoughts:\n">>)
             /\ [k \in 1..(Len(TokenFrames) - 2) |-> TokenFrames[k + 2].data[1]]
                   = Concat(final_deltas)

\* A turn whose only delta had no name ended with done after the second
\* completion streamed its text
C29_Witness ==
    /\ NoNamedCall
    /\ SecondEndedNormally
    /\ DoneSent
    /\ final_deltas # <<>>
    /\ deltas_seen # <<>>

----------------------------------------------------------------------------
(* C30 *)

\* C30: no token is sent before the first completion stream has been read to
\* its end; in a turn with tool calls the tokens sent are, in this order, the
\* Investigation Steps header and list (once every call has been processed),
\* "Thoughts:" (once the second request has been accepted), and the
\* characters of the second completion in arrival order.
C30_TokensInPhaseOrder ==
    LET expected == StepsTokens(NamesOf(ByIndex))
                    \o << TokenFrame(<<"\nThoughts:\n">>) >>
                    \o CharTokens(Concat(final_deltas))
        steps == Len(StepsTokens(NamesOf(ByIndex)))
    IN  /\ TokenFrames # <<>> => FirstStreamConsumed
        /\ (TurnRun /\ tool_calls_made # <<>>)
           => /\ Len(TokenFrames) <= Len(expected)
              /\ \A k \in 1..Len(TokenFrames) : TokenFrames[k] = expected[k]
              /\ TokenFrames # <<>> => tc_pos > Len(tool_calls_made)
              /\ Len(TokenFrames) > steps => second_requested

----------------------------------------------------------------------------
(* C31 *)

\* The text of the model's streamed reply: the content of the second
\* completion, the only completion whose text is sent (agent.py:348-370 reads
\* the tool calls of the first one alone)
ModelReply == Concat(final_deltas)

\* `part` occurs in `text`
Contains(text, part) ==
    \E k \in 0..(Len(text) - Len(part)) : SubSeq(text, k + 1, k + Len(part)) = part

\* C31: in the composed system, when the text of the model's streamed reply
\* begins with a JSON object, the raw text of that object never appears in
\* what the client shows: it is replaced by the formatted summary or dropped.
C31_RawObjectNeverShown ==
    ObjectReply(ModelReply) => ~Contains(emitted, LeadingObjectText(ModelReply))

----------------------------------------------------------------------------
(* C32 *)

\* The message list of the first completion request of the turn
FirstRequestMessages ==
    FirstMessages([session_id |-> session_id,
                   messages |-> Append(msgs_at_start, Message("user", user_message)),
                   investigation_summary |-> summary_at_start,
                   tool_calls_count |-> count_at_start],
                  user_message)

\* What a tool-role message of a call of `name` can hold: the result or an
\* error string
ResultTexts(name) ==
    {ToolResult(name), ToolNotFound(name)}
    \cup {<<"Error: ", e>> : e \in {"ValueError", "TimeoutError", "ConnectionError"}}
    \cup {<<"Error: invalid arguments - ", "JSONDecodeError">>}

\* C32: the message list of the second completion is the message list of the
\* first completion, then (when a call is named) one assistant record that
\* lists exactly the named calls in index order, then one tool-role message
\* per named call in that order, with the call's id and its result or error
\* string, then the summarization instruction; the id of every tool-role
\* message is listed in the assistant record.
C32_SecondRequestMessages ==
    second_requested
    => LET base == Len(FirstRequestMessages)
           n == Len(ByIndex)
           rec == IF n > 0 THEN 1 ELSE 0
           call(k) == tool_calls_made[ByIndex[k]]
       IN  /\ Len(summary_messages) = base + rec + n + 1
           /\ SubSeq(summary_messages, 1, base) = FirstRequestMessages
           /\ n > 0 =>
                 /\ summary_messages[base + 1].role = "assistant"
                 /\ summary_messages[base + 1].tool_calls =
                       [k \in 1..n |->
                           [id |-> call(k).id, type |-> "function",
                            function |-> [name |-> call(k).name,
                                          arguments |-> call(k).arguments]]]
           /\ \A k \in 1..n :
                 LET m == summary_messages[base + rec + k]
                 IN  /\ m.role = "tool"
                     /\ m.tool_call_id = call(k).id
                     /\ m.content \in ResultTexts(call(k).name)
                     /\ \E j \in 1..n :
                           summary_messages[base + 1].tool_calls[j].id = m.tool_call_id
           /\ summary_messages[Len(summary_messages)] = SummaryInstruction
           /\ \A k \in 1..Len(summary_messages) :
                 summary_messages[k].role = "tool" => k \in (base + rec + 1)..(base + rec + n)

\* The second request of a turn with two named calls of different ids, the
\* first with an error string and the second with its result
C32_Witness ==
    /\ second_requested
    /\ Len(ByIndex) = 2
    /\ tool_calls_made[1].id # tool_calls_made[2].id
    /\ summary_messages[Len(summary_messages) - 2].content[1] = "Error: "
    /\ summary_messages[Len(summary_messages) - 1].content = ToolResult(tool_calls_made[2].name)

----------------------------------------------------------------------------
(* C33 *)

\* The first completion request of the turn is about to be issued, or its
\* stream is being read: messages is the list of that request
FirstRequestBuilt == pc \in {"create1", "stream1"}

\* C33: the message list of the first completion request is one system
\* message, then at most the last 10 entries of the session transcript in
\* transcript order, the new user message appearing once, as the last
\* message of the list.
C33_FirstRequestHasUserMessageOnce ==
    FirstRequestBuilt
    => LET window == LastN(Session.messages, HISTORY_WINDOW)
       IN  /\ messages[1].role = "system"
           /\ Len(messages) = 1 + Len(window)
           /\ \A k \in 1..Len(window) :
                 /\ messages[1 + k].role = window[k].role
                 /\ messages[1 + k].content = window[k].content
           /\ messages[Len(messages)].role = "user"
           /\ messages[Len(messages)].content = user_message
           /\ Session.messages[Len(Session.messages)] = Message("user", user_message)
           /\ Len(Session.messages) = Len(msgs_at_start) + 1

----------------------------------------------------------------------------
(* C34 *)

\* C34: on each connection the server reads one request message and runs at
\* most one turn: a request is read only by a handler that has read none, a
\* turn starts only from the reading of the request, and once the handler has
\* ended (its terminal frame sent, or the handler left by an exception) the
\* only step is the acceptance of a new connection.
C34_OneRequestPerConnection ==
    [][/\ (pc' = "accepted" /\ pc # "accepted") => (HandlerEnded /\ turns' = turns + 1)
       /\ raw' # raw =>
             \/ pc = "accepted" /\ raw = NoRequest /\ turns' = turns
             \/ turns' = turns + 1 /\ raw' = NoRequest
       /\ (pc' = "start" /\ pc # "start") => (pc = "accepted" /\ turns' = turns)
       /\ HandlerEnded => (turns' = turns + 1 /\ pc' = "accepted" /\ sent' = <<>>)]_vars

\* A second turn, on the second connection, after the first connection's
\* turn ended with its done frame
C34_Witness ==
    /\ turns = 2
    /\ pc = "start"
    /\ raw # NoRequest
    /\ session_id \in DOMAIN sessions_at_accept
    /\ sessions_at_accept[session_id].messages # <<>>

----------------------------------------------------------------------------
(* C35 *)

\* A token frame is read in this step
TokenRead == frames_in' # frames_in

\* C35 as stated: the in-prefix flag is true at turn start, only changes from
\* true to false, nothing is emitted while it is true, and every token read
\* after it became false is emitted verbatim, in arrival order.
C35_NothingEmittedInPrefix ==
    [][/\ (frames_in = <<>> /\ client_pc = "receiving") => in_prefix
       /\ in_prefix' => in_prefix
       /\ in_prefix' => emitted' = <<>>
       /\ (~in_prefix /\ TokenRead) => emitted' = emitted \o frames_in'[Len(frames_in')]]_vars

\* C35, amended: the in-prefix flag is true at turn start, only changes from
\* true to false, nothing is emitted while it is true and frames are still
\* being read (a done frame read while it is true flushes the buffered text),
\* and every token read after it became false is emitted verbatim, in arrival
\* order.
C35_NothingEmittedInPrefixBeforeEnd ==
    [][/\ (frames_in = <<>> /\ client_pc = "receiving") => in_prefix
       /\ in_prefix' => in_prefix
       /\ (in_prefix' /\ client_pc' = "receiving") => emitted' = <<>>
       /\ (in_prefix' /\ client_pc' = "done") => emitted' = prefix_buffer
       /\ (~in_prefix /\ TokenRead) => emitted' = emitted \o frames_in'[Len(frames_in')]
       /\ (~in_prefix /\ ~TokenRead) => emitted' = emitted]_vars

\* The flag went false on the third frame, after two frames of buffering,
\* and a fourth token was emitted as it came
C35_Witness ==
    /\ ~in_prefix
    /\ Len(frames_in) = 4
    /\ RunTokens(SubSeq(frames_in, 1, 2)).in_prefix
    /\ ~RunTokens(SubSeq(frames_in, 1, 3)).in_prefix
    /\ emitted = RunTokens(SubSeq(frames_in, 1, 3)).emitted \o frames_in[4]
    /\ frames_in[4] # <<" ">>

----------------------------------------------------------------------------
(* C36 *)

AssistantEntries(msgs) == {k \in 1..Len(msgs) : msgs[k].role = "assistant"}

\* The most recent assistant entry of a transcript that has one
LastAssistant(msgs) ==
    msgs[CHOOSE k \in AssistantEntries(msgs) : \A j \in AssistantEntries(msgs) : j <= k]

\* C36: in every state of every session the summary has at most 500
\* characters; it is empty exactly when the transcript has no assistant entry,
\* and otherwise it is the first 500 characters of the most recent one.
C36_SummaryFollowsLastAnswer ==
    \A s \in DOMAIN SESSIONS :
        LET msgs == SESSIONS[s].messages
            summary == SESSIONS[s].investigation_summary
        IN  /\ Len(summary) <= SUMMARY_LIMIT
            /\ (summary = <<>>) <=> (AssistantEntries(msgs) = {})
            /\ AssistantEntries(msgs) # {} =>
                  /\ summary = SubSeq(LastAssistant(msgs).content, 1,
                                      Min(SUMMARY_LIMIT, Len(LastAssistant(msgs).content)))

\* A session with two assistant entries: the earlier one longer than the
\* limit, the summary that of the later one
C36_Witness ==
    /\ "default" \in DOMAIN SESSIONS
    /\ Cardinality(AssistantEntries(SESSIONS["default"].messages)) = 2
    /\ Len(SESSIONS["default"].messages[2].content) > SUMMARY_LIMIT
    /\ SESSIONS["default"].investigation_summary = <<"o", "k">>

----------------------------------------------------------------------------
(* C37 *)

IsPrefixOf(a, b) == Len(a) <= Len(b) /\ SubSeq(b, 1, Len(a)) = a

\* The transcript of a session in `sessions`, empty for a session not yet
\* created
TranscriptIn(sessions, s) == IF s \in DOMAIN sessions THEN sessions[s].messages ELSE <<>>

\* C37: the session transcript is append-only.  No step removes, reorders or
\* modifies an entry; a step appends at most one entry, a user entry with the
\* turn's message at the start of an accepted turn or an assistant entry at
\* its end; a turn adds one user entry and at most one assistant entry; and
\* no transcript ever holds a tool-role or system-role entry.
C37_TranscriptAppendOnly ==
    [][/\ DOMAIN SESSIONS \subseteq DOMAIN SESSIONS'
       /\ \A s \in DOMAIN SESSIONS' :
             LET before == TranscriptIn(SESSIONS, s)
                 after == SESSIONS'[s].messages
             IN  /\ IsPrefixOf(before, after)
                 /\ Len(after) <= Len(before) + 1
                 /\ \A k \in 1..Len(after) : after[k].role \in {"user", "assistant"}
                 /\ Len(after) = Len(before) + 1 =>
                       /\ s = session_id
                       /\ \/ /\ pc = "start"
                             /\ after[Len(after)] = Message("user", user_message)
                          \/ /\ pc \notin {"accepted", "start"}
                             /\ pc' = "returned"
                             /\ after[Len(after)].role = "assistant"
       /\ (pc' \notin {"accepted", "start"} /\ user_message' # <<>>) =>
             LET m == SESSIONS'[session_id'].messages
                 base == Append(msgs_at_start', Message("user", user_message'))
             IN  \/ m = base
                 \/ /\ pc' = "returned"
                    /\ Len(m) = Len(base) + 1
                    /\ IsPrefixOf(base, m)
                    /\ m[Len(m)].role = "assistant"]_vars

\* A turn with a tool result in its prompt has ended on a session that had a
\* transcript: the transcript is the old one, the user entry and the answer
C37_Witness ==
    /\ pc = "returned"
    /\ TurnRun
    /\ msgs_at_start # <<>>
    /\ Len(Session.messages) = Len(msgs_at_start) + 2
    /\ \E k \in 1..Len(summary_messages) : summary_messages[k].role = "tool"

----------------------------------------------------------------------------
(* C39 *)

\* The session of the turn is referenced in this step (agent.py:313)
SessionReferenced == pc = "start" /\ pc' = "build"

\* C39: a session is created on the first reference to its id, with an empty
\* transcript, an empty summary and a counter of 0; a later reference gives
\* the state the session has; no session is removed; a step of a turn leaves
\* every session but the turn's own unchanged.
C39_SessionsCreatedOnFirstReference ==
    [][/\ DOMAIN SESSIONS \subseteq DOMAIN SESSIONS'
       /\ \A s \in DOMAIN SESSIONS' \ DOMAIN SESSIONS :
             /\ SessionReferenced
             /\ s = session_id
             /\ msgs_at_start' = <<>>
             /\ summary_at_start' = <<>>
             /\ count_at_start' = 0
             /\ SESSIONS'[s] = [session_id |-> s,
                                messages |-> << Message("user", user_message) >>,
                                investigation_summary |-> <<>>,
                                tool_calls_count |-> 0]
       /\ (SessionReferenced /\ session_id \in DOMAIN SESSIONS) =>
             /\ msgs_at_start' = SESSIONS[session_id].messages
             /\ summary_at_start' = SESSIONS[session_id].investigation_summary
             /\ count_at_start' = SESSIONS[session_id].tool_calls_count
             /\ SESSIONS'[session_id] =
                   [SESSIONS[session_id] EXCEPT
                       !.messages = Append(@, Message("user", user_message))]
       /\ \A s \in DOMAIN SESSIONS : s # session_id => SESSIONS'[s] = SESSIONS[s]]_vars

\* A turn on a new session has ended with calls counted and an answer
\* committed, next to a session of earlier turns that is as it was
C39_Witness ==
    /\ DOMAIN SESSIONS = {"s1", "default"}
    /\ session_id = "default"
    /\ pc = "returned"
    /\ Session.tool_calls_count > 0
    /\ Session.investigation_summary # <<>>
    /\ DOMAIN sessions_at_accept = {"s1"}
    /\ SESSIONS["s1"] = sessions_at_accept["s1"]

----------------------------------------------------------------------------
(* C38 *)

\* The session of the two turns before either of them
InitialCounter ==
    IF ConcurrentSession \in DOMAIN sessions_at_accept
    THEN sessions_at_accept[ConcurrentSession].tool_calls_count ELSE 0

InitialTranscript == TranscriptIn(sessions_at_accept, ConcurrentSession)

\* The named calls the loop of handler c has reached
CallsReached(c) ==
    Cardinality({k \in 1..Len(conns[c].tool_calls_made) :
                    /\ IsNamed(conns[c].tool_calls_made[k])
                    /\ \/ k < conns[c].tc_pos
                       \/ k = conns[c].tc_pos /\ conns[c].pc = "executing"})

Started == {c \in Conns : conns[c].pc # "start"}

\* Handlers whose turn committed an answer
Answered == {c \in Conns : conns[c].pc \in {"send_done", "returned"}
                           /\ conns[c].final_response # <<>>}

\* C38: with two turns of one session running on two connections, under
\* every interleaving: the counter is its initial value plus the named calls
\* the two loops have reached, so that after both turns it is the initial
\* value plus the named calls of both; the summary is at every moment the
\* first 500 characters of the last assistant entry; and the transcript holds
\* the entries it had, the user entry of every started turn and the
\* assistant entry of every answered turn, each where it was appended.
C38_ConcurrentTurnsLoseNothing ==
    ConcurrentSession \in DOMAIN SESSIONS
    => LET session == SESSIONS[ConcurrentSession]
           msgs == session.messages
       IN  /\ session.tool_calls_count = InitialCounter + CallsReached(1) + CallsReached(2)
           /\ (\A c \in Conns : conns[c].pc = "returned") =>
                 session.tool_calls_count =
                    InitialCounter + Len(NamedCalls(conns[1].tool_calls_made))
                                   + Len(NamedCalls(conns[2].tool_calls_made))
           /\ (session.investigation_summary = <<>>) <=> (AssistantEntries(msgs) = {})
           /\ AssistantEntries(msgs) # {} =>
                 session.investigation_summary =
                    SubSeq(LastAssistant(msgs).content, 1,
                           Min(SUMMARY_LIMIT, Len(LastAssistant(msgs).content)))
           /\ IsPrefixOf(InitialTranscript, msgs)
           /\ Len(msgs) = Len(InitialTranscript) + Cardinality(Started) + Cardinality(Answered)
           /\ \A c \in Started :
                 /\ conns[c].user_at \in (Len(InitialTranscript) + 1)..Len(msgs)
                 /\ msgs[conns[c].user_at] = Message("user", conns[c].user_message)
           /\ \A c \in Answered :
                 /\ conns[c].assistant_at \in (conns[c].user_at + 1)..Len(msgs)
                 /\ msgs[conns[c].assistant_at] =
                       Message("assistant", conns[c].final_response)
           /\ \A c, d \in Answered : c # d => conns[c].assistant_at # conns[d].assistant_at

\* Both turns have ended after overlapping: each started before the other
\* committed, each made calls while the other was making its own, and the
\* second answer committed is the short one after a long one
C38_Witness ==
    /\ \A c \in Conns : conns[c].pc = "returned" /\ conns[c].final_response # <<>>
    /\ conns[2].user_at < conns[1].assistant_at
    /\ conns[1].user_at < conns[2].assistant_at
    /\ conns[1].count_at_start < conns[2].done_count
    /\ conns[2].count_at_start < conns[1].done_count
    /\ Len(NamedCalls(conns[1].tool_calls_made)) = 2
    /\ Len(NamedCalls(conns[2].tool_calls_made)) = 1
    /\ conns[1].done_count < SESSIONS[ConcurrentSession].tool_calls_count
    /\ Len(LastAssistant(SESSIONS[ConcurrentSession].messages).content) < SUMMARY_LIMIT
    /\ InitialTranscript # <<>>

----------------------------------------------------------------------------
(* C40 *)

\* Handler c sends its done frame in this step
DoneFrameSent(c) == conns[c].pc = "send_done" /\ conns'[c].pc = "returned"

\* C40: when a turn's done frame is sent, the turn's assistant entry is in
\* the transcript and the summary is that of the last assistant entry, that
\* entry or a later one; the count of the frame was read after the loop
\* passed every call of the turn, so it is at least the count at the start
\* of the turn plus the turn's named calls; and the entry stays in place
\* after the frame.
C40_CommittedBeforeDone ==
    [][\A c \in Conns :
          LET h == conns[c]
              session == SESSIONS[ConcurrentSession]
          IN  /\ DoneFrameSent(c) =>
                    /\ h.tc_pos > Len(h.tool_calls_made)
                    /\ h.done_count >= h.count_at_start + Len(NamedCalls(h.tool_calls_made))
                    /\ h.done_count <= session.tool_calls_count
                    /\ h.final_response # <<>> =>
                          /\ h.assistant_at \in 1..Len(session.messages)
                          /\ session.messages[h.assistant_at] =
                                Message("assistant", h.final_response)
                          /\ session.investigation_summary =
                                Take(LastAssistant(session.messages).content, SUMMARY_LIMIT)
                    /\ h.final_response = <<>> => h.assistant_at = 0
              /\ (h.done_sent /\ h.final_response # <<>>) =>
                    SESSIONS'[ConcurrentSession].messages[h.assistant_at] =
                       Message("assistant", h.final_response)]_vars

\* The done frame of a turn with two calls and a long answer has been sent
\* while the other turn is executing a call
C40_Witness ==
    /\ conns[1].done_sent
    /\ Len(conns[1].final_response) > SUMMARY_LIMIT
    /\ conns[1].done_count >= conns[1].count_at_start + 2
    /\ SESSIONS[ConcurrentSession].messages[conns[1].assistant_at].content
          = conns[1].final_response
    /\ conns[2].pc = "executing"

====
